---- MODULE Spec2Model ----
(***************************************************************************)
(* Model of the long-form EVM (LFVM) bytecode translator of core/vm/lfvm:  *)
(* convert / toInstructions (converter.go) and the process-wide            *)
(* translation cache behind Convert.                                       *)
(*                                                                         *)
(* Source bytes are numbers 0..255, source positions are 0-based as in the *)
(* Go code (At(code, p) is code[p]); a long-form instruction is a record   *)
(* [opcode, arg] with the opcode written by its name and arg a uint16.     *)
(***************************************************************************)
EXTENDS Integers, Sequences, FiniteSets, TLC

VARIABLES code, si, i, res, status, out,
          cache, gor, calls, ncalls,
          hc, hcall, ctx

vars == <<code, si, i, res, status, out, cache, gor, calls, ncalls,
          hc, hcall, ctx>>

----------------------------------------------------------------------------
(* Bounds of the explored inputs.                                          *)

\* longest byte string over Alphabet translated by the convert loop
MaxLen == 5
\* number of bytes before the instruction toInstructions is applied to
MaxPre == 1
\* largest number of bytes placed behind a PUSHk beyond its k immediates
MaxExtra == 2
\* number of Convert calls made in one run
MaxCalls == 3

----------------------------------------------------------------------------
(* EVM opcode bytes (package vm) used by the translator.                   *)

vmSTOP == 0
vmADD == 1
vmSUB == 3
vmLT == 16
vmISZERO == 21
vmAND == 22
vmSHL == 27
vmPOP == 80
vmMSTORE == 82
vmJUMP == 86
vmJUMPI == 87
vmPC == 88
vmJUMPDEST == 91
vmPUSH1 == 96
vmPUSH2 == 97
vmPUSH4 == 99
vmPUSH32 == 127
vmDUP1 == 128
vmDUP2 == 129
vmDUP3 == 130
vmSWAP1 == 144
vmSWAP2 == 145

\* uint16 value range: uint16(x) is x % UInt16Mod
UInt16Mod == 65536
\* the limit of the PC position check, 1<<16
PCLimit == 65536

PUSHOPS == <<"PUSH1", "PUSH2", "PUSH3", "PUSH4", "PUSH5", "PUSH6", "PUSH7",
             "PUSH8", "PUSH9", "PUSH10", "PUSH11", "PUSH12", "PUSH13",
             "PUSH14", "PUSH15", "PUSH16", "PUSH17", "PUSH18", "PUSH19",
             "PUSH20", "PUSH21", "PUSH22", "PUSH23", "PUSH24", "PUSH25",
             "PUSH26", "PUSH27", "PUSH28", "PUSH29", "PUSH30", "PUSH31",
             "PUSH32">>

DUPOPS == <<"DUP1", "DUP2", "DUP3", "DUP4", "DUP5", "DUP6", "DUP7", "DUP8",
            "DUP9", "DUP10", "DUP11", "DUP12", "DUP13", "DUP14", "DUP15",
            "DUP16">>

SWAPOPS == <<"SWAP1", "SWAP2", "SWAP3", "SWAP4", "SWAP5", "SWAP6", "SWAP7",
             "SWAP8", "SWAP9", "SWAP10", "SWAP11", "SWAP12", "SWAP13",
             "SWAP14", "SWAP15", "SWAP16">>

LOGOPS == <<"LOG0", "LOG1", "LOG2", "LOG3", "LOG4">>

ARITHOPS == <<"STOP", "ADD", "MUL", "SUB", "DIV", "SDIV", "MOD", "SMOD",
              "ADDMOD", "MULMOD", "EXP", "SIGNEXTEND">>

CMPOPS == <<"LT", "GT", "SLT", "SGT", "EQ", "ISZERO", "AND", "OR", "XOR",
            "NOT", "BYTE", "SHL", "SHR", "SAR">>

ENVOPS == <<"ADDRESS", "BALANCE", "ORIGIN", "CALLER", "CALLVALUE",
            "CALLDATALOAD", "CALLDATASIZE", "CALLDATACOPY", "CODESIZE",
            "CODECOPY", "GASPRICE", "EXTCODESIZE", "EXTCODECOPY",
            "RETURNDATASIZE", "RETURNDATACOPY", "EXTCODEHASH">>

BLOCKOPS == <<"BLOCKHASH", "COINBASE", "TIMESTAMP", "NUMBER", "DIFFICULTY",
              "GASLIMIT", "CHAINID", "SELFBALANCE", "BASEFEE">>

MEMOPS == <<"POP", "MLOAD", "MSTORE", "MSTORE8", "SLOAD", "SSTORE", "JUMP",
            "JUMPI", "PC", "MSIZE", "GAS", "JUMPDEST">>

\* op_2_op: the long-form opcode of a source byte, INVALID when unmapped
\* (PUSH1..PUSH32 are not in the table: toInstructions handles them).
op_2_op(b) ==
    CASE b \in 0..11 -> ARITHOPS[b + 1]
      [] b \in 16..29 -> CMPOPS[b - 15]
      [] b = 32 -> "SHA3"
      [] b \in 48..63 -> ENVOPS[b - 47]
      [] b \in 64..72 -> BLOCKOPS[b - 63]
      [] b \in 80..91 -> MEMOPS[b - 79]
      [] b \in 128..143 -> DUPOPS[b - 127]
      [] b \in 144..159 -> SWAPOPS[b - 143]
      [] b \in 160..164 -> LOGOPS[b - 159]
      [] b = 240 -> "CREATE"
      [] b = 241 -> "CALL"
      [] b = 242 -> "CALLCODE"
      [] b = 243 -> "RETURN"
      [] b = 244 -> "DELEGATECALL"
      [] b = 245 -> "CREATE2"
      [] b = 250 -> "STATICCALL"
      [] b = 253 -> "REVERT"
      [] b = 255 -> "SELFDESTRUCT"
      [] OTHER -> "INVALID"

\* Instruction{opcode: o, arg: a}
Ins(o, a) == [opcode |-> o, arg |-> a]

\* toInstruction: every opcode that is neither PC nor a push
toInstruction(opcode) == Ins(op_2_op(opcode), 0)

\* code[p], p counted from 0
At(c, p) == c[p + 1]

\* uint16(hi)<<8 | uint16(lo)
Pack(hi, lo) == (hi * 256 + lo) % UInt16Mod

\* the triple returned by toInstructions; panic marks the PC panic
Ret(ins, inc) == [ins |-> ins, inc |-> inc, panic |-> FALSE]

NoMatch == [ins |-> <<>>, inc |-> 0, panic |-> FALSE]

----------------------------------------------------------------------------
(* toInstructions, converter.go:104-249                                    *)

\* the super-instruction patterns, tried in the order of the source
SuperInstruction(pos, c) ==
    LET op(k) == At(c, pos + k) IN
    IF /\ Len(c) > pos + 7
       /\ op(0) = vmPUSH1 /\ op(2) = vmPUSH4 /\ op(7) = vmDUP3
    THEN Ret(<<Ins("PUSH1_PUSH4_DUP3", op(1) % UInt16Mod),
               Ins("DATA", Pack(op(3), op(4))),
               Ins("DATA", Pack(op(5), op(6)))>>, 7)
    ELSE IF /\ Len(c) > pos + 7
            /\ op(0) = vmPUSH1 /\ op(2) = vmPUSH1 /\ op(4) = vmPUSH1
            /\ op(6) = vmSHL /\ op(7) = vmSUB
    THEN Ret(<<Ins("PUSH1_PUSH1_PUSH1_SHL_SUB", Pack(op(1), op(3))),
               Ins("DATA", op(5) % UInt16Mod)>>, 7)
    ELSE IF /\ Len(c) > pos + 4
            /\ op(0) = vmAND /\ op(1) = vmSWAP1 /\ op(2) = vmPOP
            /\ op(3) = vmSWAP2 /\ op(4) = vmSWAP1
    THEN Ret(<<Ins("AND_SWAP1_POP_SWAP2_SWAP1", 0)>>, 4)
    ELSE IF /\ Len(c) > pos + 4
            /\ op(0) = vmISZERO /\ op(1) = vmPUSH2 /\ op(4) = vmJUMPI
    THEN Ret(<<Ins("ISZERO_PUSH2_JUMPI", Pack(op(2), op(3)))>>, 4)
    ELSE IF /\ Len(c) > pos + 3
            /\ op(0) = vmSWAP2 /\ op(1) = vmSWAP1 /\ op(2) = vmPOP
            /\ op(3) = vmJUMP
    THEN Ret(<<Ins("SWAP2_SWAP1_POP_JUMP", 0)>>, 3)
    ELSE IF /\ Len(c) > pos + 3
            /\ op(0) = vmSWAP1 /\ op(1) = vmPOP /\ op(2) = vmSWAP2
            /\ op(3) = vmSWAP1
    THEN Ret(<<Ins("SWAP1_POP_SWAP2_SWAP1", 0)>>, 3)
    ELSE IF /\ Len(c) > pos + 3
            /\ op(0) = vmPOP /\ op(1) = vmSWAP2 /\ op(2) = vmSWAP1
            /\ op(3) = vmPOP
    THEN Ret(<<Ins("POP_SWAP2_SWAP1_POP", 0)>>, 3)
    ELSE IF Len(c) > pos + 3 /\ op(0) = vmPUSH2 /\ op(3) = vmJUMP
    THEN Ret(<<Ins("PUSH2_JUMP", Pack(op(1), op(2)))>>, 3)
    ELSE IF Len(c) > pos + 3 /\ op(0) = vmPUSH2 /\ op(3) = vmJUMPI
    THEN Ret(<<Ins("PUSH2_JUMPI", Pack(op(1), op(2)))>>, 3)
    ELSE IF Len(c) > pos + 3 /\ op(0) = vmPUSH1 /\ op(2) = vmPUSH1
    THEN Ret(<<Ins("PUSH1_PUSH1", Pack(op(1), op(3)))>>, 3)
    ELSE IF Len(c) > pos + 2 /\ op(0) = vmPUSH1 /\ op(2) = vmADD
    THEN Ret(<<Ins("PUSH1_ADD", op(1) % UInt16Mod)>>, 2)
    ELSE IF Len(c) > pos + 2 /\ op(0) = vmPUSH1 /\ op(2) = vmSHL
    THEN Ret(<<Ins("PUSH1_SHL", op(1) % UInt16Mod)>>, 2)
    ELSE IF Len(c) > pos + 2 /\ op(0) = vmPUSH1 /\ op(2) = vmDUP1
    THEN Ret(<<Ins("PUSH1_DUP1", op(1) % UInt16Mod)>>, 2)
    ELSE IF Len(c) > pos + 1 /\ op(0) = vmSWAP1 /\ op(1) = vmPOP
    THEN Ret(<<Ins("SWAP1_POP", 0)>>, 1)
    ELSE IF Len(c) > pos + 1 /\ op(0) = vmPOP /\ op(1) = vmJUMP
    THEN Ret(<<Ins("POP_JUMP", 0)>>, 1)
    ELSE IF Len(c) > pos + 1 /\ op(0) = vmPOP /\ op(1) = vmPOP
    THEN Ret(<<Ins("POP_POP", 0)>>, 1)
    ELSE IF Len(c) > pos + 1 /\ op(0) = vmSWAP2 /\ op(1) = vmSWAP1
    THEN Ret(<<Ins("SWAP2_SWAP1", 0)>>, 1)
    ELSE IF Len(c) > pos + 1 /\ op(0) = vmSWAP2 /\ op(1) = vmPOP
    THEN Ret(<<Ins("SWAP2_POP", 0)>>, 1)
    ELSE IF Len(c) > pos + 1 /\ op(0) = vmDUP2 /\ op(1) = vmMSTORE
    THEN Ret(<<Ins("DUP2_MSTORE", 0)>>, 1)
    ELSE IF Len(c) > pos + 1 /\ op(0) = vmDUP2 /\ op(1) = vmLT
    THEN Ret(<<Ins("DUP2_LT", 0)>>, 1)
    ELSE NoMatch

\* the PC branch: panics beyond the limit, else the position as a uint16
PCInstruction(pos) ==
    IF pos > PCLimit
    THEN [ins |-> <<>>, inc |-> 0, panic |-> TRUE]
    ELSE Ret(<<Ins("PC", pos % UInt16Mod)>>, 0)

\* "not enough bytes left in the code": len(code) < pos+n+2
PushTooShort(pos, c, n) == Len(c) < pos + n + 2

\* the number of instructions a push of n bytes occupies with one
\* slot too many for even n
PushSlotsOneMore(n) == 1 + (n \div 2)

\* the number of instructions a push of n bytes occupies: n/2 + n%2
PushSlots(n) == (n \div 2) + (n % 2)

\* res := make([]Instruction, n/2+n%2), all DATA with arg 0, then
\* res[0].opcode = PUSH1 + OpCode(n-1)
PushFrame(n) ==
    [j \in 1..PushSlots(n) |-> Ins(IF j = 1 THEN PUSHOPS[n] ELSE "DATA", 0)]

\* the pairing loop: for i := 0; i < n; i += 2 { res[i/2].arg = ... }
PairArgs(r, pos, c, n) ==
    [j \in 1..Len(r) |->
        IF 2 * (j - 1) < n
        THEN Ins(r[j].opcode,
                 Pack(At(c, pos + 2 * (j - 1) + 1), At(c, pos + 2 * (j - 1) + 2)))
        ELSE r[j]]

\* FixOddArg left out: the last pair keeps the byte behind the immediate
FixOddArgNone(r, pos, c, n) == r

\* if n%2 == 1 { res[n/2].arg = uint16(code[pos+n]) << 8 }
FixOddArg(r, pos, c, n) ==
    IF n % 2 = 1
    THEN [r EXCEPT ![(n \div 2) + 1].arg = (At(c, pos + n) * 256) % UInt16Mod]
    ELSE r

\* PushInstructions marking a push without enough bytes by three INVALID
\* instructions
PushInstructionsPadded(pos, c, n) ==
    IF PushTooShort(pos, c, n)
    THEN Ret(<<Ins("INVALID", 0), Ins("INVALID", 0), Ins("INVALID", 0)>>, 1)
    ELSE Ret(FixOddArg(PairArgs(PushFrame(n), pos, c, n), pos, c, n), n)

\* the PUSH1..PUSH32 branch
PushInstructions(pos, c, n) ==
    IF PushTooShort(pos, c, n)
    THEN Ret(<<Ins("INVALID", 0)>>, 1)
    ELSE Ret(FixOddArg(PairArgs(PushFrame(n), pos, c, n), pos, c, n), n)

\* toInstructions with the super-instruction patterns never tried
toInstructionsPlain(pos, c, withSuper) ==
    LET opcode == At(c, pos)
    IN  IF opcode = vmPC THEN PCInstruction(pos)
        ELSE IF vmPUSH1 <= opcode /\ opcode <= vmPUSH32
             THEN PushInstructions(pos, c, opcode - vmPUSH1 + 1)
        ELSE Ret(<<toInstruction(opcode)>>, 0)

toInstructions(pos, c, withSuper) ==
    LET sup == IF withSuper THEN SuperInstruction(pos, c) ELSE NoMatch
        opcode == At(c, pos)
    IN  IF sup # NoMatch THEN sup
        ELSE IF opcode = vmPC THEN PCInstruction(pos)
        ELSE IF vmPUSH1 <= opcode /\ opcode <= vmPUSH32
             THEN PushInstructions(pos, c, opcode - vmPUSH1 + 1)
        ELSE Ret(<<toInstruction(opcode)>>, 0)

----------------------------------------------------------------------------
(* convert, converter.go:71-102                                            *)

NOOPs(n) == [j \in 1..n |-> Ins("NOOP", 0)]

\* JumpdestBlock without the JUMP_TO/NOOP padding
JumpdestBlockNoPad(r, p) == Append(r, Ins("JUMPDEST", 0))

\* the JUMPDEST branch once len(res) <= i: pad up to index i, then append
JumpdestBlock(r, p) ==
    LET jumped == IF Len(r) < p
                  THEN Append(r, Ins("JUMP_TO", p % UInt16Mod))
                  ELSE r
        padded == IF Len(jumped) < p
                  THEN jumped \o NOOPs(p - Len(jumped))
                  ELSE jumped
    IN  Append(padded, Ins("JUMPDEST", 0))

\* Iteration with the cursor moved one byte too far behind the
\* instructions of toInstructions
IterationSkipsOne(c, withSuper, p, r) ==
    IF At(c, p) = vmJUMPDEST
    THEN IF Len(r) > p
         THEN [i |-> p, res |-> r, status |-> "error"]
         ELSE [i |-> p + 1, res |-> JumpdestBlock(r, p), status |-> "loop"]
    ELSE LET t == toInstructions(p, c, withSuper) IN
         IF t.panic
         THEN [i |-> p, res |-> r, status |-> "panic"]
         ELSE [i |-> p + t.inc + 2, res |-> r \o t.ins, status |-> "loop"]

\* one iteration of the loop from cursor p with output r:
\* the next cursor, the next output and how the iteration ended
Iteration(c, withSuper, p, r) ==
    IF At(c, p) = vmJUMPDEST
    THEN IF Len(r) > p
         THEN [i |-> p, res |-> r, status |-> "error"]
         ELSE [i |-> p + 1, res |-> JumpdestBlock(r, p), status |-> "loop"]
    ELSE LET t == toInstructions(p, c, withSuper) IN
         IF t.panic
         THEN [i |-> p, res |-> r, status |-> "panic"]
         ELSE [i |-> p + t.inc + 1, res |-> r \o t.ins, status |-> "loop"]

RECURSIVE ConvertFrom(_, _, _, _)
ConvertFrom(c, withSuper, p, r) ==
    IF p >= Len(c)
    THEN [code |-> r, err |-> "nil"]
    ELSE LET n == Iteration(c, withSuper, p, r) IN
         IF n.status = "loop"
         THEN ConvertFrom(c, withSuper, n.i, n.res)
         ELSE [code |-> <<>>, err |-> n.status]

\* convert(code, with_super_instructions): the Code and the error
convert(c, withSuper) == ConvertFrom(c, withSuper, 0, <<>>)

----------------------------------------------------------------------------
(* Convert and the translation cache, converter.go:12-69                   *)

changedAddress01 == "0xA7CC236F81b04c1058e9bfb70E0Ee9940e271676"
changedAddress02 == "0xAD0FB83a110c3694faDa81e8B396716a610c4030"
changedAddress03 == "0xA8B3C9f298877dD93F30E8Ed359956faE10E8797"

\* cache_key{addr, len(code)}
cache_key(addr, c) == <<addr, Len(c)>>

\* cache_val{oldCode, code}
cache_val(oldCode, translated) == [oldCode |-> oldCode, code |-> translated]

\* the comparison of the cached original bytes, made for the three
\* addresses only: for i, v := range res.oldCode { if v != code[i] ... }
IsEqual(addr, oldCode, c) ==
    IF addr = changedAddress01 \/ addr = changedAddress02
          \/ addr = changedAddress03
    THEN \A j \in 1..Len(oldCode) : oldCode[j] = c[j]
    ELSE TRUE

\* whether the looked-up entry is consulted: exists && !create
UseCached(exists, create) == exists /\ ~create

\* whether the call returns the cached translation
CacheHit(ch, addr, c, create) ==
    /\ UseCached(cache_key(addr, c) \in DOMAIN ch, create)
    /\ IsEqual(addr, ch[cache_key(addr, c)].oldCode, c)

\* Installs without the creation-mode test
InstallsAlways(create) == TRUE

\* whether a successful translation is installed: if !create { ... }
Installs(create) == ~create

\* cache[key] = cache_val{oldCode: code, code: resCode}
CachePut(ch, key, val) ==
    [k \in DOMAIN ch \cup {key} |-> IF k = key THEN val ELSE ch[k]]

\* CacheAfter installing a translation under a free key only
CacheAfterFirstOnly(ch, addr, c, translated, create) ==
    IF Installs(create) /\ cache_key(addr, c) \notin DOMAIN ch
    THEN CachePut(ch, cache_key(addr, c), cache_val(c, translated))
    ELSE ch

\* the cache after the translation step of Convert
CacheAfter(ch, addr, c, translated, create) ==
    IF Installs(create)
    THEN CachePut(ch, cache_key(addr, c), cache_val(c, translated))
    ELSE ch

EmptyCache == [k \in {} |-> cache_val(<<>>, <<>>)]

----------------------------------------------------------------------------
(* Inputs                                                                  *)

Alphabet == {vmADD, vmJUMP, vmJUMPDEST, vmPUSH1, vmPUSH2}

SeqsUpTo(n) == UNION {[1..k -> Alphabet] : k \in 0..n}

\* the source bytes of the twenty super-instruction patterns, every
\* immediate byte set to x
Patterns(x) ==
    { <<vmPUSH1, x, vmPUSH4, x, x, x, x, vmDUP3>>,
      <<vmPUSH1, x, vmPUSH1, x, vmPUSH1, x, vmSHL, vmSUB>>,
      <<vmAND, vmSWAP1, vmPOP, vmSWAP2, vmSWAP1>>,
      <<vmISZERO, vmPUSH2, x, x, vmJUMPI>>,
      <<vmSWAP2, vmSWAP1, vmPOP, vmJUMP>>,
      <<vmSWAP1, vmPOP, vmSWAP2, vmSWAP1>>,
      <<vmPOP, vmSWAP2, vmSWAP1, vmPOP>>,
      <<vmPUSH2, x, x, vmJUMP>>,
      <<vmPUSH2, x, x, vmJUMPI>>,
      <<vmPUSH1, x, vmPUSH1, x>>,
      <<vmPUSH1, x, vmADD>>,
      <<vmPUSH1, x, vmSHL>>,
      <<vmPUSH1, x, vmDUP1>>,
      <<vmSWAP1, vmPOP>>,
      <<vmPOP, vmJUMP>>,
      <<vmPOP, vmPOP>>,
      <<vmSWAP2, vmSWAP1>>,
      <<vmSWAP2, vmPOP>>,
      <<vmDUP2, vmMSTORE>>,
      <<vmDUP2, vmLT>> }

\* immediate bytes tried in the patterns: a JUMPDEST byte, a push, a value
PatternBytes == {vmJUMPDEST, vmPUSH1, 5}

PatternCodes ==
    { pre \o p \o suf :
        pre \in {<<>>, <<vmJUMPDEST>>, <<vmPUSH1>>},
        p \in UNION {Patterns(x) : x \in PatternBytes},
        suf \in {<<>>, <<vmJUMPDEST>>, <<vmADD, vmJUMPDEST>>} }

\* the byte strings given to the convert loop
LoopCodes == SeqsUpTo(MaxLen) \cup PatternCodes

Seeds == {1, 200}

\* the j-th byte behind the opcode under test: never zero
FollowByte(seed, j) == (seed + 3 * j) % 256

\* npre ADD bytes, the opcode, then nfollow bytes
OpcodeInput(npre, opcode, nfollow, seed) ==
    [pos |-> npre,
     code |-> [j \in 1..(npre + 1 + nfollow) |->
                 IF j <= npre THEN vmADD
                 ELSE IF j = npre + 1 THEN opcode
                 ELSE FollowByte(seed, j - npre - 1)]]

\* a PUSHk at position 0..MaxPre followed by 0..k+MaxExtra bytes
PushInputs ==
    { OpcodeInput(npre, vmPUSH1 + k - 1, nfollow, seed) :
        npre \in 0..MaxPre, k \in 1..32,
        nfollow \in 0..(32 + MaxExtra), seed \in Seeds }

\* a PC at a position around the limit, behind STOP bytes
PCInputs ==
    { [pos |-> p,
       code |-> [j \in 1..(p + 1 + nfollow) |->
                   IF j = p + 1 THEN vmPC ELSE vmSTOP]] :
        p \in {0, 1, PCLimit - 1, PCLimit, PCLimit + 1},
        nfollow \in 0..1 }

\* the (pos, code) pairs toInstructions is applied to
ToInstructionsInputs ==
    {x \in PushInputs :
        Len(x.code) - x.pos - 1 <= (At(x.code, x.pos) - vmPUSH1 + 1) + MaxExtra}
    \cup PCInputs

\* the arguments of the Convert calls
CallAddrs == {changedAddress01, "0x00"}

CallCodes == { <<vmPUSH1, 5, vmADD>>, <<vmPUSH1, 6, vmADD>>,
               <<vmADD, vmJUMPDEST>> }

\* the goroutines calling Convert concurrently
Goroutines == {"g1", "g2"}

\* a goroutine outside Convert: its arguments, locals and returned pair
Idle == [pc |-> "idle", addr |-> "", code |-> <<>>, si |-> FALSE,
         create |-> FALSE, exists |-> FALSE, isEqual |-> TRUE,
         ret |-> [code |-> <<>>, err |-> "nil"]]

NoOut == [ins |-> <<>>, inc |-> 0, panic |-> FALSE]

\* the hash cache, the last hash call and the execution context while a
\* specification does not exercise them
NoHashCache == [built |-> FALSE]
NoHashCall == [kind |-> "none"]
NoContext == [status |-> "none"]

----------------------------------------------------------------------------
(* The convert loop, one iteration per step                                *)

Init ==
    /\ code \in LoopCodes
    /\ si \in BOOLEAN
    /\ i = 0
    /\ res = <<>>
    /\ status = "loop"
    /\ out = NoOut
    /\ cache = EmptyCache
    /\ gor = [g \in Goroutines |-> Idle]
    /\ calls = {}
    /\ ncalls = 0
    /\ hc = NoHashCache
    /\ hcall = NoHashCall
    /\ ctx = NoContext

\* an iteration at a JUMPDEST byte (converter.go:77-91)
ConvertJumpdest ==
    /\ status = "loop"
    /\ i < Len(code)
    /\ At(code, i) = vmJUMPDEST
    /\ LET n == Iteration(code, si, i, res) IN
         /\ i' = n.i
         /\ res' = n.res
         /\ status' = n.status
    /\ UNCHANGED <<code, si, out, cache, gor, calls, ncalls>>
    /\ UNCHANGED <<hc, hcall, ctx>>

\* an iteration at any other byte (converter.go:93-99)
ConvertInstructions ==
    /\ status = "loop"
    /\ i < Len(code)
    /\ At(code, i) # vmJUMPDEST
    /\ LET n == Iteration(code, si, i, res) IN
         /\ i' = n.i
         /\ res' = n.res
         /\ status' = n.status
    /\ out' = toInstructions(i, code, si)
    /\ UNCHANGED <<code, si, cache, gor, calls, ncalls>>
    /\ UNCHANGED <<hc, hcall, ctx>>

\* the loop ends: return res, nil (converter.go:101)
ConvertReturn ==
    /\ status = "loop"
    /\ i >= Len(code)
    /\ status' = "done"
    /\ UNCHANGED <<code, si, i, res, out, cache, gor, calls, ncalls>>
    /\ UNCHANGED <<hc, hcall, ctx>>

Next == ConvertJumpdest \/ ConvertInstructions \/ ConvertReturn

Spec == Init /\ [][Next]_vars

----------------------------------------------------------------------------
(* toInstructions applied to one position                                  *)

InitTI ==
    /\ \E x \in ToInstructionsInputs : code = x.code /\ i = x.pos
    /\ si \in BOOLEAN
    /\ res = <<>>
    /\ status = "call"
    /\ out = NoOut
    /\ cache = EmptyCache
    /\ gor = [g \in Goroutines |-> Idle]
    /\ calls = {}
    /\ ncalls = 0
    /\ hc = NoHashCache
    /\ hcall = NoHashCall
    /\ ctx = NoContext

ApplyToInstructions ==
    /\ status = "call"
    /\ out' = toInstructions(i, code, si)
    /\ status' = IF out'.panic THEN "panic" ELSE "returned"
    /\ UNCHANGED <<code, si, i, res, cache, gor, calls, ncalls>>
    /\ UNCHANGED <<hc, hcall, ctx>>

NextTI == ApplyToInstructions

SpecTI == InitTI /\ [][NextTI]_vars

----------------------------------------------------------------------------
(* Concurrent Convert calls on the shared cache                            *)

InitCache ==
    /\ code = <<>>
    /\ si = FALSE
    /\ i = 0
    /\ res = <<>>
    /\ status = "cache"
    /\ out = NoOut
    /\ cache = EmptyCache
    /\ gor = [g \in Goroutines |-> Idle]
    /\ calls = {}
    /\ ncalls = 0
    /\ hc = NoHashCache
    /\ hcall = NoHashCall
    /\ ctx = NoContext

\* Convert up to the first mu.Unlock: the lookup under the mutex
\* (converter.go:36-58); a hit returns the cached translation
ConvertLookup(g, addr, c, withSuper, create) ==
    /\ gor[g].pc # "convert"
    /\ ncalls < MaxCalls
    /\ LET key == cache_key(addr, c)
           exists == key \in DOMAIN cache
           hit == CacheHit(cache, addr, c, create)
           isEqual == IF UseCached(exists, create)
                      THEN IsEqual(addr, cache[key].oldCode, c)
                      ELSE TRUE
       IN  gor' = [gor EXCEPT ![g] =
                     [pc |-> IF hit THEN "returned" ELSE "convert",
                      addr |-> addr, code |-> c, si |-> withSuper,
                      create |-> create, exists |-> exists,
                      isEqual |-> isEqual,
                      ret |-> IF hit
                              THEN [code |-> cache[key].code, err |-> "nil"]
                              ELSE [code |-> <<>>, err |-> "nil"]]]
    /\ calls' = calls \cup {<<addr, c>>}
    /\ ncalls' = ncalls + 1
    /\ UNCHANGED <<code, si, i, res, status, out, cache>>
    /\ UNCHANGED <<hc, hcall, ctx>>

\* the rest of Convert: translate outside the mutex, install, return
\* (converter.go:59-68)
ConvertStore(g) ==
    /\ gor[g].pc = "convert"
    /\ LET r == convert(gor[g].code, gor[g].si) IN
         IF r.err # "nil"
         THEN /\ gor' = [gor EXCEPT ![g].pc = "returned", ![g].ret = r]
              /\ cache' = cache
         ELSE /\ gor' = [gor EXCEPT ![g].pc = "returned", ![g].ret = r]
              /\ cache' = CacheAfter(cache, gor[g].addr, gor[g].code, r.code,
                                     gor[g].create)
    /\ UNCHANGED <<code, si, i, res, status, out, calls, ncalls>>
    /\ UNCHANGED <<hc, hcall, ctx>>

\* clearConversionCache (converter.go:29-33)
clearConversionCache ==
    /\ cache # EmptyCache
    /\ cache' = EmptyCache
    /\ UNCHANGED <<code, si, i, res, status, out, gor, calls, ncalls>>
    /\ UNCHANGED <<hc, hcall, ctx>>

NextCache ==
    \/ \E g \in Goroutines, addr \in CallAddrs, c \in CallCodes,
          withSuper \in BOOLEAN, create \in BOOLEAN :
          ConvertLookup(g, addr, c, withSuper, create)
    \/ \E g \in Goroutines : ConvertStore(g)
    \/ clearConversionCache

SpecCache == InitCache /\ [][NextCache]_vars

----------------------------------------------------------------------------
(* Properties of the convert loop                                          *)

\* the cursor values of the loop: the instruction boundaries it reaches
RECURSIVE BoundariesFrom(_, _, _, _)
BoundariesFrom(c, withSuper, p, r) ==
    IF p >= Len(c)
    THEN {}
    ELSE LET n == Iteration(c, withSuper, p, r) IN
         {p} \cup (IF n.status = "loop"
                   THEN BoundariesFrom(c, withSuper, n.i, n.res)
                   ELSE {})

Boundaries(c, withSuper) == BoundariesFrom(c, withSuper, 0, <<>>)

\* the output indices (from 0) holding a JUMPDEST
JumpdestIndices(r) == {q \in 0..(Len(r) - 1) : r[q + 1].opcode = "JUMPDEST"}

\* C1: every JUMPDEST byte the loop has passed as an instruction boundary
\* sits at the output index equal to its source position, and right after
\* a JUMPDEST was appended the output length is the cursor; on a
\* successful return this holds of every such boundary.
JumpdestAtSourceIndex ==
    status \in {"loop", "done"} =>
        /\ \A p \in Boundaries(code, si) :
              (p < i /\ At(code, p) = vmJUMPDEST)
                 => (p < Len(res) /\ res[p + 1].opcode = "JUMPDEST")
        /\ (i > 0 /\ (i - 1) \in Boundaries(code, si)
                  /\ At(code, i - 1) = vmJUMPDEST) => Len(res) = i

\* C1 witness: a successful return where a JUMPDEST boundary needed padding
JumpdestPaddedReturned ==
    /\ status = "done"
    /\ \E p \in Boundaries(code, si) :
          /\ p > 1
          /\ At(code, p) = vmJUMPDEST
          /\ res[p].opcode = "NOOP"
          /\ res[p + 1].opcode = "JUMPDEST"

\* canonical EVM code analysis: the positions holding 0x5b outside the
\* immediate of a PUSHk, the immediate covering the next k bytes or all
\* the remaining ones
RECURSIVE ValidJumpdestsFrom(_, _)
ValidJumpdestsFrom(c, p) ==
    IF p >= Len(c) THEN {}
    ELSE IF vmPUSH1 <= At(c, p) /\ At(c, p) <= vmPUSH32
    THEN ValidJumpdestsFrom(c, p + (At(c, p) - vmPUSH1 + 1) + 1)
    ELSE (IF At(c, p) = vmJUMPDEST THEN {p} ELSE {})
            \cup ValidJumpdestsFrom(c, p + 1)

ValidJumpdests(c) == ValidJumpdestsFrom(c, 0)

\* C2: the JUMPDEST indices of the output are the valid jump destinations
\* of the source under canonical code analysis.
JumpdestsAreCanonical ==
    status = "done" => JumpdestIndices(res) = ValidJumpdests(code)

\* the component opcodes of the super-instructions that carry no immediate
PlainComponents(o) ==
    CASE o = "AND_SWAP1_POP_SWAP2_SWAP1" ->
            <<"AND", "SWAP1", "POP", "SWAP2", "SWAP1">>
      [] o = "SWAP2_SWAP1_POP_JUMP" -> <<"SWAP2", "SWAP1", "POP", "JUMP">>
      [] o = "SWAP1_POP_SWAP2_SWAP1" -> <<"SWAP1", "POP", "SWAP2", "SWAP1">>
      [] o = "POP_SWAP2_SWAP1_POP" -> <<"POP", "SWAP2", "SWAP1", "POP">>
      [] o = "SWAP1_POP" -> <<"SWAP1", "POP">>
      [] o = "POP_JUMP" -> <<"POP", "JUMP">>
      [] o = "POP_POP" -> <<"POP", "POP">>
      [] o = "SWAP2_SWAP1" -> <<"SWAP2", "SWAP1">>
      [] o = "SWAP2_POP" -> <<"SWAP2", "POP">>
      [] o = "DUP2_MSTORE" -> <<"DUP2", "MSTORE">>
      [] o = "DUP2_LT" -> <<"DUP2", "LT">>
      [] OTHER -> <<>>

\* PUSH1 x as the translator writes it without super-instructions
Push1Of(x) == Ins("PUSH1", (x % 256) * 256)

\* the instructions at index q (from 1) of r with a super-instruction
\* replaced by its components, and the number of slots it occupied
ExpandAt(r, q) ==
    LET o == r[q].opcode
        a == r[q].arg
    IN  CASE o = "PUSH1_PUSH4_DUP3" ->
               [ins |-> <<Push1Of(a), Ins("PUSH4", r[q + 1].arg),
                          Ins("DATA", r[q + 2].arg), Ins("DUP3", 0)>>,
                n |-> 3]
          [] o = "PUSH1_PUSH1_PUSH1_SHL_SUB" ->
               [ins |-> <<Push1Of(a \div 256), Push1Of(a),
                          Push1Of(r[q + 1].arg), Ins("SHL", 0),
                          Ins("SUB", 0)>>,
                n |-> 2]
          [] o = "ISZERO_PUSH2_JUMPI" ->
               [ins |-> <<Ins("ISZERO", 0), Ins("PUSH2", a),
                          Ins("JUMPI", 0)>>, n |-> 1]
          [] o = "PUSH2_JUMP" ->
               [ins |-> <<Ins("PUSH2", a), Ins("JUMP", 0)>>, n |-> 1]
          [] o = "PUSH2_JUMPI" ->
               [ins |-> <<Ins("PUSH2", a), Ins("JUMPI", 0)>>, n |-> 1]
          [] o = "PUSH1_PUSH1" ->
               [ins |-> <<Push1Of(a \div 256), Push1Of(a)>>, n |-> 1]
          [] o = "PUSH1_ADD" ->
               [ins |-> <<Push1Of(a), Ins("ADD", 0)>>, n |-> 1]
          [] o = "PUSH1_SHL" ->
               [ins |-> <<Push1Of(a), Ins("SHL", 0)>>, n |-> 1]
          [] o = "PUSH1_DUP1" ->
               [ins |-> <<Push1Of(a), Ins("DUP1", 0)>>, n |-> 1]
          [] PlainComponents(o) # <<>> ->
               [ins |-> [j \in 1..Len(PlainComponents(o)) |->
                           Ins(PlainComponents(o)[j], 0)],
                n |-> 1]
          [] OTHER -> [ins |-> <<r[q]>>, n |-> 1]

RECURSIVE ExpandFrom(_, _)
ExpandFrom(r, q) ==
    IF q > Len(r) THEN <<>>
    ELSE ExpandAt(r, q).ins \o ExpandFrom(r, q + ExpandAt(r, q).n)

\* r with every super-instruction replaced by its components
Expand(r) == ExpandFrom(r, 1)

IsPadding(x) == x.opcode \in {"JUMP_TO", "NOOP"}

NotPadding(x) == ~IsPadding(x)

\* r without the JUMP_TO/NOOP padding
StripPadding(r) == SelectSeq(r, NotPadding)

\* C4: the translation with super-instructions, each super-instruction
\* replaced by its components, is the translation without them up to
\* padding, with the JUMPDESTs at the same indices.
SuperExpandsToPlain ==
    (status = "done" /\ si) =>
        LET plain == convert(code, FALSE).code IN
        /\ StripPadding(Expand(res)) = StripPadding(plain)
        /\ JumpdestIndices(res) = JumpdestIndices(plain)

----------------------------------------------------------------------------
(* Properties of toInstructions                                            *)

\* the opcode under test is a PUSHk handled by the push branch
PushApplied ==
    /\ status = "returned"
    /\ vmPUSH1 <= At(code, i) /\ At(code, i) <= vmPUSH32
    /\ ~(si /\ SuperInstruction(i, code) # NoMatch)

\* the k of the PUSHk under test
PushK == At(code, i) - vmPUSH1 + 1

\* the number of source bytes behind the opcode under test
Following == Len(code) - i - 1

IsInvalid(o) == o.ins = <<Ins("INVALID", 0)>>

\* C5: a PUSHk becomes a single INVALID exactly when fewer than k bytes
\* follow it, and a PUSHk instruction whenever at least k bytes follow.
PushInvalidIffTruncated ==
    PushApplied =>
        /\ IsInvalid(out) <=> Following < PushK
        /\ Following >= PushK => out.ins[1].opcode = PUSHOPS[PushK]

\* ceil((k-1)/2)
CeilHalfKMinus1(k) == k \div 2

\* floor((k-1)/2)
FloorHalfKMinus1(k) == (k - 1) \div 2

\* the instructions behind the first are all DATA
TailIsData(r) == \A j \in 2..Len(r) : r[j].opcode = "DATA"

\* C6 as stated: with its k immediate bytes present and super-instructions
\* off, a PUSHk becomes one PUSH1+(k-1) followed by ceil((k-1)/2) DATA.
PushShapeCeil ==
    (PushApplied /\ ~si /\ Following >= PushK) =>
        /\ out.ins[1].opcode = PUSHOPS[PushK]
        /\ Len(out.ins) = 1 + CeilHalfKMinus1(PushK)
        /\ TailIsData(out.ins)

\* C6 amended: with super-instructions off a PUSHk becomes either a single
\* INVALID or one PUSH1+(k-1) followed by exactly floor((k-1)/2) DATA, the
\* latter whenever more than k bytes follow the opcode.
PushShapeFloor ==
    (PushApplied /\ ~si) =>
        \/ IsInvalid(out) /\ Following <= PushK
        \/ /\ Following > PushK
           /\ out.ins[1].opcode = PUSHOPS[PushK]
           /\ Len(out.ins) = 1 + FloorHalfKMinus1(PushK)
           /\ TailIsData(out.ins)
           /\ out.inc = PushK

\* C6 witness: an even and an odd push were translated as pushes
PushShapeSeen ==
    /\ PushApplied /\ ~si
    /\ Following > PushK
    /\ PushK \in {2, 32}
    /\ Len(out.ins) = PushK \div 2

\* the args of r read in order, high byte then low byte
ArgBytes(r) ==
    [j \in 1..(2 * Len(r)) |->
        IF j % 2 = 1 THEN r[(j + 1) \div 2].arg \div 256
        ELSE r[j \div 2].arg % 256]

\* the k immediate bytes of the PUSHk under test
Immediate == [j \in 1..PushK |-> At(code, i + j)]

\* C7: the args of a translated push, read high byte then low byte, are
\* the k immediate bytes followed by one zero byte when k is odd.
PushArgsAreImmediate ==
    (PushApplied /\ ~IsInvalid(out)) =>
        ArgBytes(out.ins) =
            Immediate \o (IF PushK % 2 = 1 THEN <<0>> ELSE <<>>)

\* C7 witness: an odd push of at least three bytes with a non-zero byte
\* behind its immediate was translated
OddPushTranslated ==
    /\ PushApplied /\ ~IsInvalid(out)
    /\ PushK % 2 = 1 /\ PushK >= 3
    /\ At(code, i + PushK + 1) # 0
    /\ out.ins[Len(out.ins)].arg = At(code, i + PushK) * 256

\* C8: a PC at position p becomes (PC, p) when p <= 0xFFFF and is rejected
\* when p > 0xFFFF; no PC instruction carries an arg other than its
\* position.
PCArgIsPosition ==
    (status \in {"returned", "panic"} /\ At(code, i) = vmPC) =>
        /\ i <= 65535 => (status = "returned" /\ out.ins = <<Ins("PC", i)>>)
        /\ i > 65535 => status = "panic"
        /\ \A j \in 1..Len(out.ins) :
              out.ins[j].opcode = "PC" => out.ins[j].arg = i

----------------------------------------------------------------------------
(* Properties of Convert and the cache                                     *)

\* all calls made so far under one (address, length) key passed the same
\* code bytes
ConsistentCalls ==
    \A a \in calls, b \in calls :
        (a[1] = b[1] /\ Len(a[2]) = Len(b[2])) => a[2] = b[2]

\* C3: when all calls sharing a key pass identical code bytes, every
\* non-creation call returns convert(code, si), for both values of si.
ConvertIsPure ==
    ConsistentCalls =>
        \A g \in Goroutines :
            (gor[g].pc = "returned" /\ ~gor[g].create) =>
                gor[g].ret = convert(gor[g].code, gor[g].si)

\* goroutine g leaves the lookup towards the translation in this step
StartsTranslation(g) == gor[g].pc # "convert" /\ gor'[g].pc = "convert"

\* goroutine g finishes the translation step of Convert in this step
FinishesTranslation(g) == gor[g].pc = "convert" /\ gor'[g].pc = "returned"

\* C9: a creation call never returns from the lookup, returns
\* convert(code, si) of its own arguments, and none of its steps changes
\* the cache.
CreateBypassesCache ==
    [][\A g \in Goroutines :
          /\ (StartsTranslation(g) /\ gor'[g].create) => cache' = cache
          /\ (FinishesTranslation(g) /\ gor[g].create) =>
                /\ cache' = cache
                /\ gor'[g].ret = convert(gor[g].code, gor[g].si)
          /\ (gor'[g].pc = "returned" /\ gor'[g].create) =>
                (FinishesTranslation(g) \/ gor'[g] = gor[g])]_vars

\* C9 witness: a creation call has returned a translation that differs
\* from the one cached under its key
CreateReturnedBesideEntry ==
    \E g \in Goroutines :
        /\ gor[g].pc = "returned" /\ gor[g].create
        /\ cache_key(gor[g].addr, gor[g].code) \in DOMAIN cache
        /\ cache[cache_key(gor[g].addr, gor[g].code)].code # gor[g].ret.code
        /\ gor[g].ret = convert(gor[g].code, gor[g].si)

\* the call of g found an entry whose original bytes differ from its code
SawMismatch(g) == ~gor[g].create /\ gor[g].exists /\ ~gor[g].isEqual

\* C10 as stated: a call that found differing original bytes returns a
\* fresh translation and leaves the cache as it is.
MismatchDoesNotRecache ==
    [][\A g \in Goroutines :
          (FinishesTranslation(g) /\ SawMismatch(g)) =>
              /\ gor'[g].ret = convert(gor[g].code, gor[g].si)
              /\ cache' = cache]_vars

\* C10 amended: a call that found differing original bytes returns a fresh
\* translation and installs it: the entry under its key then holds the
\* candidate bytes and their translation.
MismatchRecaches ==
    [][\A g \in Goroutines :
          (FinishesTranslation(g) /\ SawMismatch(g)) =>
              /\ gor'[g].ret = convert(gor[g].code, gor[g].si)
              /\ cache_key(gor[g].addr, gor[g].code) \in DOMAIN cache'
              /\ cache'[cache_key(gor[g].addr, gor[g].code)] =
                    cache_val(gor[g].code,
                              convert(gor[g].code, gor[g].si).code)]_vars

\* C10 witness: a call that found differing original bytes has returned
\* and the entry under its key holds its code
MismatchReturned ==
    \E g \in Goroutines :
        /\ gor[g].pc = "returned" /\ SawMismatch(g)
        /\ gor[g].addr = changedAddress01
        /\ cache_key(gor[g].addr, gor[g].code) \in DOMAIN cache
        /\ cache[cache_key(gor[g].addr, gor[g].code)].oldCode = gor[g].code

----------------------------------------------------------------------------
(* The keccak hash cache (hash_cache.go)                                   *)
(*                                                                         *)
(* A byte string to hash is a record [len, val]: its length and a number   *)
(* standing for its content (val 0 is the all-zero string).  An entry      *)
(* pointer is an index into the entries array, 0 is nil.  A nil            *)
(* dereference is recorded as panic.  The hit/miss statistics counters are *)
(* recorded per call as the kind of the call.                              *)

\* largest capacity of the 32-byte structure, and of the 64-byte structure
MaxCap == 3

nil == 0

Bytes(len, val) == [len |-> len, val |-> val]

\* the 32-byte and 64-byte inputs and inputs of other lengths
Data32 == {Bytes(32, v) : v \in {0, 1, 2, 3}}
Data64 == {Bytes(64, v) : v \in {0, 1, 2}}
DataOther == {Bytes(0, 0), Bytes(33, 1)}
HashData == Data32 \cup Data64 \cup DataOther

\* the keccak sponge: Write absorbs, Read squeezes a digest that depends on
\* everything absorbed since the last Reset
RECURSIVE keccakRead(_)
keccakRead(absorbed) ==
    IF absorbed = <<>> THEN 1
    ELSE LET n == Len(absorbed)
             d == absorbed[n]
         IN  (keccakRead(SubSeq(absorbed, 1, n - 1)) * 131
                + d.len * 8 + d.val + 1) % 1000003

keccakReset(hasher) == [isNil |-> FALSE, absorbed |-> <<>>]

keccakWrite(hasher, data) ==
    [hasher EXCEPT !.absorbed = Append(@, data)]

NewLegacyKeccak256 == [isNil |-> FALSE, absorbed |-> <<>>]

NilHasher == [isNil |-> TRUE, absorbed |-> <<>>]

\* the hasher a calling context brings along: none yet, or one used before
Hashers == {NilHasher, keccakWrite(NewLegacyKeccak256, Bytes(32, 1))}

\* getHash (hash_cache.go:202-214)
getHash(c, data) ==
    LET h0 == IF c.hasher.isNil THEN NewLegacyKeccak256
              ELSE keccakReset(c.hasher)
        h1 == keccakWrite(h0, data)
    IN  keccakRead(h1.absorbed)

\* a zero-valued hashCacheEntry and an LRU structure of the given capacity
\* before its first element is inserted (hash_cache.go:43-48)
ZeroEntry == [key |-> 0, hash |-> 0, pred |-> nil, succ |-> nil]

EmptyIndex == [k \in {} |-> nil]

MakeLRU(capacity) ==
    [entries |-> [n \in 1..capacity |-> ZeroEntry],
     index |-> EmptyIndex, head |-> nil, tail |-> nil, nextFree |-> 0]

deleteNothing(index, key) == index

\* delete(h.index32, res.key) (hash_cache.go:181)
deleteKey(index, key) ==
    [k \in (DOMAIN index) \ {key} |-> index[k]]

\* h.index32[key] = entry (hash_cache.go:130)
setKey(index, key, entry) ==
    [k \in (DOMAIN index) \cup {key} |->
        IF k = key THEN entry ELSE index[k]]

\* getFree32 / getFree64 (hash_cache.go:170-198)
getFree(L) ==
    IF L.nextFree < Len(L.entries)
    THEN [L |-> [L EXCEPT !.nextFree = @ + 1],
          res |-> L.nextFree + 1, panic |-> FALSE]
    ELSE IF L.tail = nil
    THEN [L |-> L, res |-> nil, panic |-> TRUE]
    ELSE LET r == L.tail
             t == L.entries[r].pred
             L1 == [L EXCEPT !.tail = t]
         IN  IF t = nil
             THEN [L |-> L1, res |-> r, panic |-> TRUE]
             ELSE [L |-> [L1 EXCEPT !.entries[t].succ = nil,
                                    !.index = deleteKey(@, L.entries[r].key)],
                   res |-> r, panic |-> FALSE]

moveToFrontNot(L, entry) == [L |-> L, panic |-> FALSE]

\* a found entry other than the head is unlinked and put in front
\* (hash_cache.go:105-118)
moveToFront(L, entry) ==
    LET p == L.entries[entry].pred
        s == L.entries[entry].succ
    IN  IF p = nil \/ L.head = nil
        THEN [L |-> L, panic |-> TRUE]
        ELSE LET E1 == [L.entries EXCEPT ![p].succ = s]
                 E2 == IF s # nil THEN [E1 EXCEPT ![s].pred = p] ELSE E1
                 E3 == [E2 EXCEPT ![entry].pred = nil,
                                  ![entry].succ = L.head]
                 E4 == [E3 EXCEPT ![L.head].pred = entry]
             IN  [L |-> [L EXCEPT !.entries = E4,
                                  !.tail = IF s # nil THEN @ ELSE p,
                                  !.head = entry],
                  panic |-> FALSE]

\* the hit branch of getHash32 / getHash64 (hash_cache.go:102-120)
getHashFound(L, entry) ==
    LET m == IF entry # L.head THEN moveToFront(L, entry)
             ELSE [L |-> L, panic |-> FALSE]
    IN  [L |-> m.L, ret |-> m.L.entries[entry].hash, kind |-> "hit",
         panic |-> m.panic]

\* the miss branch of getHash32 / getHash64 (hash_cache.go:121-131)
getHashMissing(L, c, data, key) ==
    LET f == getFree(L) IN
    IF f.panic
    THEN [L |-> f.L, ret |-> 0, kind |-> "miss", panic |-> TRUE]
    ELSE LET entry == f.res
             E1 == [f.L.entries EXCEPT
                       ![entry] = [key |-> key, hash |-> getHash(c, data),
                                   pred |-> nil, succ |-> f.L.head]]
         IN  IF f.L.head = nil
             THEN [L |-> [f.L EXCEPT !.entries = E1], ret |-> 0,
                   kind |-> "miss", panic |-> TRUE]
             ELSE LET E2 == [E1 EXCEPT ![f.L.head].pred = entry] IN
                  [L |-> [f.L EXCEPT !.entries = E2, !.head = entry,
                                     !.index = setKey(@, key, entry)],
                   ret |-> E2[entry].hash, kind |-> "miss",
                   panic |-> FALSE]

\* copy(key[:], data) (hash_cache.go:99-100)
keyOf(data) == data.val

\* getHash32 and getHash64 on their structure (hash_cache.go:98-168)
getHashCached(L, c, data) ==
    LET key == keyOf(data) IN
    IF key \in DOMAIN L.index
    THEN getHashFound(L, L.index[key])
    ELSE getHashMissing(L, c, data, key)

getHash32(h, c, data) ==
    LET r == getHashCached(h.lru32, c, data) IN
    [h |-> [h EXCEPT !.lru32 = r.L, !.panic = r.panic],
     ret |-> r.ret, kind |-> r.kind]

getHash64(h, c, data) ==
    LET r == getHashCached(h.lru64, c, data) IN
    [h |-> [h EXCEPT !.lru64 = r.L, !.panic = r.panic],
     ret |-> r.ret, kind |-> r.kind]

\* HashCache.hash (hash_cache.go:87-96)
hash(h, c, data) ==
    IF data.len = 32 THEN getHash32(h, c, data)
    ELSE IF data.len = 64 THEN getHash64(h, c, data)
    ELSE [h |-> h, ret |-> getHash(c, data), kind |-> "bypass"]

\* the first element of a structure: the all-zero input and its hash
\* (hash_cache.go:57-67, 70-80)
insertFirst(L, data) ==
    LET f == getFree(L) IN
    IF f.panic THEN [L |-> f.L, panic |-> TRUE]
    ELSE LET hasher == keccakWrite(keccakReset(NewLegacyKeccak256), data)
             E1 == [f.L.entries EXCEPT
                       ![f.res].hash = keccakRead(hasher.absorbed)]
         IN  [L |-> [f.L EXCEPT !.head = f.res, !.tail = f.res,
                                !.entries = E1,
                                !.index = setKey(@, keyOf(data), f.res)],
              panic |-> FALSE]

\* newHashCache (hash_cache.go:42-83)
newHashCache(capacity32, capacity64) ==
    LET a == insertFirst(MakeLRU(capacity32), Bytes(32, 0))
        b == insertFirst(MakeLRU(capacity64), Bytes(64, 0))
    IN  IF a.panic
        THEN [built |-> FALSE, panic |-> TRUE, lru32 |-> a.L,
              lru64 |-> MakeLRU(capacity64)]
        ELSE [built |-> ~b.panic, panic |-> b.panic, lru32 |-> a.L,
              lru64 |-> b.L]

InitHash ==
    /\ code = <<>>
    /\ si = FALSE
    /\ i = 0
    /\ res = <<>>
    /\ status = "hash"
    /\ out = NoOut
    /\ cache = EmptyCache
    /\ gor = [g \in Goroutines |-> Idle]
    /\ calls = {}
    /\ ncalls = 0
    /\ \E capacity32 \in 0..MaxCap, capacity64 \in 0..MaxCap :
          hc = newHashCache(capacity32, capacity64)
    /\ hcall = NoHashCall
    /\ ctx = NoContext

\* one call of HashCache.hash on a constructed cache
CallHash(c, data) ==
    /\ hc.built /\ ~hc.panic
    /\ LET r == hash(hc, c, data) IN
         /\ hc' = r.h
         /\ hcall' = [kind |-> IF r.h.panic THEN "panic" ELSE r.kind,
                      data |-> data, ret |-> r.ret]
    /\ UNCHANGED <<code, si, i, res, status, out, cache, gor, calls, ncalls>>
    /\ UNCHANGED ctx

NextHash ==
    \E hasher \in Hashers, data \in HashData :
        CallHash([hasher |-> hasher], data)

SpecHash == InitHash /\ [][NextHash]_vars

\* the keys of a structure from head to tail
RECURSIVE OrderFrom(_, _, _)
OrderFrom(L, entry, fuel) ==
    IF entry = nil \/ fuel = 0 THEN <<>>
    ELSE <<L.entries[entry].key>>
            \o OrderFrom(L, L.entries[entry].succ, fuel - 1)

Order(L) == OrderFrom(L, L.head, Len(L.entries) + 1)

\* the digest getHash computes for an input in a context of its own
Uncached(data) == getHash([hasher |-> NilHasher], data)


\* the entries of a structure that have been handed out by getFree
InUse(L) == 1..L.nextFree

\* the hash of every entry in use is the digest of the entry's key, and
\* every index key points at an entry that holds that key's digest
HashesBelong(L, len) ==
    /\ \A n \in InUse(L) :
          L.entries[n].hash = Uncached(Bytes(len, L.entries[n].key))
    /\ \A k \in DOMAIN L.index :
          /\ L.index[k] \in InUse(L)
          /\ L.entries[L.index[k]].hash = Uncached(Bytes(len, k))

\* C11: every digest returned by HashCache.hash, for an input of any length,
\* is the digest the uncached getHash computes for that input, and the hash
\* stored in an entry belongs to the entry's key and to the index key that
\* points at it, also after evictions and for the pre-inserted zero keys.
HashEqualsUncached ==
    /\ hcall.kind \in {"hit", "miss", "bypass"} =>
          hcall.ret = Uncached(hcall.data)
    /\ HashesBelong(hc.lru32, 32)
    /\ HashesBelong(hc.lru64, 64)

\* C11 witness: a hit on a 32-byte key served from a full structure that
\* has evicted its pre-inserted zero key, and the zero key of the 64-byte
\* structure still in place
HitAfterEviction ==
    /\ hcall.kind = "hit"
    /\ hcall.data \in Data32
    /\ hcall.ret = Uncached(hcall.data)
    /\ hc.lru32.nextFree = Len(hc.lru32.entries)
    /\ 0 \notin DOMAIN hc.lru32.index
    /\ 0 \in DOMAIN hc.lru64.index

Without(s, k) == SelectSeq(s, LAMBDA x : x # k)

Elements(s) == {s[n] : n \in DOMAIN s}

\* the order an LRU list of the given capacity has after key is requested
LRUAfter(old, key, capacity) ==
    IF key \in Elements(old) THEN <<key>> \o Without(old, key)
    ELSE IF Len(old) < capacity THEN <<key>> \o old
    ELSE <<key>> \o SubSeq(old, 1, Len(old) - 1)

\* one structure of capacity >= 2 across a call for key
LRUStep(L, M, key) ==
    Len(L.entries) >= 2 =>
        /\ Order(M) = LRUAfter(Order(L), key, Len(L.entries))
        /\ Elements(Order(M)) = DOMAIN M.index
        /\ Len(Order(M)) = Cardinality(DOMAIN M.index)

\* C12: in a structure of capacity N >= 2 every hash call leaves the list
\* from head to tail holding the cached keys most recently used first: a
\* hit moves the key to the head and keeps the order of the others, a miss
\* puts the new key at the head, a miss on a full structure drops exactly
\* the tail key.
ListIsMRUFirst ==
    [][/\ (hcall'.kind # "none" /\ hcall'.data.len = 32) =>
             /\ Len(hc.lru32.entries) >= 2 => hcall'.kind \in {"hit", "miss"}
             /\ LRUStep(hc.lru32, hc'.lru32, keyOf(hcall'.data))
       /\ (hcall'.kind # "none" /\ hcall'.data.len = 64) =>
             /\ Len(hc.lru64.entries) >= 2 => hcall'.kind \in {"hit", "miss"}
             /\ LRUStep(hc.lru64, hc'.lru64, keyOf(hcall'.data))]_vars

\* C12 witness: a miss on a full 32-byte structure of capacity 3 has put
\* key 3 in front of two keys that were hit or inserted before it
MissOnFullEvictedTail ==
    /\ hcall.kind = "miss"
    /\ hcall.data = Bytes(32, 3)
    /\ Len(hc.lru32.entries) = 3
    /\ Order(hc.lru32) = <<3, 1, 2>>

----------------------------------------------------------------------------
(* The static gas table of the interpreter                                 *)

UNKNOWN_GAS_PRICE == 999999

\* the super-instructions priced by getStaticGasPriceInternal
SUPEROPS == <<"PUSH1_ADD", "PUSH1_SHL", "PUSH1_DUP1", "PUSH2_JUMP",
              "PUSH2_JUMPI", "SWAP1_POP", "SWAP2_POP", "DUP2_MSTORE",
              "DUP2_LT", "POP_JUMP", "POP_POP", "SWAP2_SWAP1",
              "PUSH1_PUSH1", "ISZERO_PUSH2_JUMPI", "PUSH1_PUSH4_DUP3",
              "SWAP2_SWAP1_POP_JUMP", "SWAP1_POP_SWAP2_SWAP1",
              "POP_SWAP2_SWAP1_POP", "AND_SWAP1_POP_SWAP2_SWAP1",
              "PUSH1_PUSH1_PUSH1_SHL_SUB">>

CALLOPS == <<"CREATE", "CALL", "CALLCODE", "RETURN", "DELEGATECALL",
             "CREATE2", "STATICCALL", "REVERT", "SELFDESTRUCT">>

AUXOPS == <<"JUMP_TO", "NOOP", "DATA", "INVALID">>

\* every long-form opcode: the indices 0..NUM_OPCODES-1 of the table
OpCodes ==
    Elements(PUSHOPS) \cup Elements(DUPOPS) \cup Elements(SWAPOPS) \cup Elements(LOGOPS)
        \cup Elements(ARITHOPS) \cup Elements(CMPOPS) \cup {"SHA3"}
        \cup Elements(ENVOPS) \cup Elements(BLOCKOPS) \cup Elements(MEMOPS)
        \cup Elements(CALLOPS) \cup Elements(AUXOPS) \cup Elements(SUPEROPS)

\* the fixed prices of the switch statement
SwitchPrice(op) ==
    CASE op = "POP" -> 2
      [] op \in {"ADD", "SUB"} -> 3
      [] op \in {"MUL", "DIV", "SDIV", "MOD", "SMOD", "SIGNEXTEND"} -> 5
      [] op \in {"ADDMOD", "MULMOD"} -> 8
      [] op = "EXP" -> 10
      [] op = "SHA3" -> 30
      [] op \in {"ADDRESS", "ORIGIN", "CALLER", "CALLVALUE", "CALLDATASIZE",
                 "CODESIZE", "GASPRICE", "RETURNDATASIZE", "BASEFEE", "PC",
                 "MSIZE", "GAS"} -> 2
      [] op \in {"BALANCE", "EXTCODESIZE", "EXTCODEHASH", "CALL",
                 "STATICCALL", "DELEGATECALL"} -> 700
      [] op \in {"CALLDATALOAD", "CALLDATACOPY", "CODECOPY",
                 "RETURNDATACOPY", "MLOAD", "MSTORE", "MSTORE8"} -> 3
      [] op \in {"EXTCODECOPY", "CALLCODE"} -> 100
      [] op = "BLOCKHASH" -> 20
      [] op = "SELFBALANCE" -> 5
      [] op = "SLOAD" -> 800
      [] op = "JUMP" -> 8
      [] op = "JUMPI" -> 10
      [] op = "JUMPDEST" -> 1
      [] op = "LOG0" -> 375
      [] op = "LOG1" -> 750
      [] op = "LOG2" -> 1125
      [] op = "LOG3" -> 1500
      [] op = "LOG4" -> 1875
      [] op \in {"CREATE", "CREATE2"} -> 32000
      [] op \in {"SSTORE", "JUMP_TO", "RETURN", "STOP", "REVERT", "INVALID",
                 "SELFDESTRUCT"} -> 0
      [] OTHER -> UNKNOWN_GAS_PRICE

\* the prices of the opcode ranges and of the plain opcodes
PlainPrice(op) ==
    IF op \in Elements(PUSHOPS) THEN 3
    ELSE IF op \in Elements(DUPOPS) THEN 3
    ELSE IF op \in Elements(SWAPOPS) THEN 3
    ELSE IF op \in Elements(CMPOPS) THEN 3
    ELSE IF op \in {"COINBASE", "TIMESTAMP", "NUMBER", "DIFFICULTY",
                    "GASLIMIT", "CHAINID"} THEN 2
    ELSE SwitchPrice(op)

SuperPriceShort(op) ==
    CASE op = "PUSH1_PUSH1_PUSH1_SHL_SUB" ->
            PlainPrice("PUSH1") + PlainPrice("SHL") + PlainPrice("SUB")
      [] op = "ISZERO_PUSH2_JUMPI" ->
            PlainPrice("ISZERO") + PlainPrice("PUSH2")
      [] OTHER -> UNKNOWN_GAS_PRICE

\* the prices of the super-instructions
SuperPrice(op) ==
    LET price(o) == PlainPrice(o) IN
    CASE op = "PUSH1_ADD" -> price("PUSH1") + price("ADD")
      [] op = "PUSH1_SHL" -> price("PUSH1") + price("SHL")
      [] op = "PUSH1_DUP1" -> price("PUSH1") + price("DUP1")
      [] op = "PUSH2_JUMP" -> price("PUSH2") + price("JUMP")
      [] op = "PUSH2_JUMPI" -> price("PUSH2") + price("JUMPI")
      [] op = "SWAP1_POP" -> price("SWAP1") + price("POP")
      [] op = "SWAP2_POP" -> price("SWAP2") + price("POP")
      [] op = "DUP2_MSTORE" -> price("DUP2") + price("MSTORE")
      [] op = "DUP2_LT" -> price("DUP2") + price("LT")
      [] op = "POP_JUMP" -> price("POP") + price("JUMP")
      [] op = "POP_POP" -> price("POP") + price("POP")
      [] op = "SWAP2_SWAP1" -> price("SWAP2") + price("SWAP1")
      [] op = "PUSH1_PUSH1" -> price("PUSH1") + price("PUSH1")
      [] op = "ISZERO_PUSH2_JUMPI" ->
            price("ISZERO") + price("PUSH2") + price("JUMPI")
      [] op = "PUSH1_PUSH4_DUP3" ->
            price("PUSH1") + price("PUSH4") + price("DUP3")
      [] op = "SWAP2_SWAP1_POP_JUMP" ->
            price("SWAP2") + price("SWAP1") + price("POP") + price("JUMP")
      [] op = "SWAP1_POP_SWAP2_SWAP1" ->
            price("SWAP1") + price("POP") + price("SWAP2") + price("SWAP1")
      [] op = "POP_SWAP2_SWAP1_POP" ->
            price("POP") + price("SWAP2") + price("SWAP1") + price("POP")
      [] op = "AND_SWAP1_POP_SWAP2_SWAP1" ->
            price("AND") + price("SWAP1") + price("POP") + price("SWAP2")
                + price("SWAP1")
      [] op = "PUSH1_PUSH1_PUSH1_SHL_SUB" ->
            3 * price("PUSH1") + price("SHL") + price("SUB")
      [] OTHER -> UNKNOWN_GAS_PRICE

\* getStaticGasPriceInternal
getStaticGasPriceInternal(op) ==
    IF PlainPrice(op) # UNKNOWN_GAS_PRICE THEN PlainPrice(op)
    ELSE SuperPrice(op)

\* static_gas_prices as filled by init()
static_gas_prices == [op \in OpCodes |-> getStaticGasPriceInternal(op)]

\* getStaticGasPrice: the table value, or the computed value when the
\* table has none; an opcode without a price panics
\* (getStaticGasPriceZero: the table left as allocated, all zero)
getStaticGasPriceZero(op) == [price |-> 0, panic |-> FALSE]

getStaticGasPrice(op) ==
    IF op \in DOMAIN static_gas_prices
          /\ static_gas_prices[op] # UNKNOWN_GAS_PRICE
    THEN [price |-> static_gas_prices[op], panic |-> FALSE]
    ELSE LET r == getStaticGasPriceInternal(op) IN
         [price |-> r, panic |-> r = UNKNOWN_GAS_PRICE]

\* getStaticGasPrice applied to one opcode
InitPrice ==
    /\ code = <<>>
    /\ si = FALSE
    /\ i = 0
    /\ res = <<>>
    /\ status = "price"
    /\ out = NoOut
    /\ cache = EmptyCache
    /\ gor = [g \in Goroutines |-> Idle]
    /\ calls = {}
    /\ ncalls = 0
    /\ hc = NoHashCache
    /\ hcall = NoHashCall
    /\ \E op \in OpCodes :
          ctx = [status |-> "lookup", op |-> op,
                 ret |-> [price |-> 0, panic |-> FALSE]]

ApplyGetStaticGasPrice ==
    /\ ctx.status = "lookup"
    /\ ctx' = [ctx EXCEPT !.status = "priced",
                          !.ret = getStaticGasPrice(ctx.op)]
    /\ UNCHANGED <<code, si, i, res, status, out, cache, gor, calls, ncalls>>
    /\ UNCHANGED <<hc, hcall>>

NextPrice == ApplyGetStaticGasPrice

SpecPrice == InitPrice /\ [][NextPrice]_vars

\* the plain opcodes a super-instruction stands for, in order
ComponentsOf(o) ==
    CASE o = "PUSH1_ADD" -> <<"PUSH1", "ADD">>
      [] o = "PUSH1_SHL" -> <<"PUSH1", "SHL">>
      [] o = "PUSH1_DUP1" -> <<"PUSH1", "DUP1">>
      [] o = "PUSH2_JUMP" -> <<"PUSH2", "JUMP">>
      [] o = "PUSH2_JUMPI" -> <<"PUSH2", "JUMPI">>
      [] o = "PUSH1_PUSH1" -> <<"PUSH1", "PUSH1">>
      [] o = "ISZERO_PUSH2_JUMPI" -> <<"ISZERO", "PUSH2", "JUMPI">>
      [] o = "PUSH1_PUSH4_DUP3" -> <<"PUSH1", "PUSH4", "DUP3">>
      [] o = "PUSH1_PUSH1_PUSH1_SHL_SUB" ->
            <<"PUSH1", "PUSH1", "PUSH1", "SHL", "SUB">>
      [] OTHER -> PlainComponents(o)

\* the source byte of a plain opcode and the source bytes of a sequence of
\* plain opcodes, every push immediate byte being 1
ByteOf(name) ==
    IF name \in Elements(PUSHOPS)
    THEN vmPUSH1 - 1 + CHOOSE k \in 1..32 : PUSHOPS[k] = name
    ELSE CHOOSE b \in 0..255 : op_2_op(b) = name

RECURSIVE SourceOf(_)
SourceOf(names) ==
    IF names = <<>> THEN <<>>
    ELSE LET b == ByteOf(names[1]) IN
         <<b>> \o [n \in 1..(IF names[1] \in Elements(PUSHOPS)
                             THEN b - vmPUSH1 + 1 ELSE 0) |-> 1]
             \o SourceOf(Tail(names))

RECURSIVE SumPrices(_)
SumPrices(names) ==
    IF names = <<>> THEN 0
    ELSE static_gas_prices[names[1]] + SumPrices(Tail(names))

\* C20: the static gas table entry of each of the twenty super-instructions
\* is the sum of the entries of the plain opcodes the translator fuses into
\* it (15 for PUSH1_PUSH1_PUSH1_SHL_SUB, 16 for ISZERO_PUSH2_JUMPI), and
\* getStaticGasPrice returns the table entry.
SuperPriceIsSum ==
    (ctx.status = "priced" /\ ctx.op \in Elements(SUPEROPS)) =>
        /\ Len(ComponentsOf(ctx.op)) >= 2
        /\ SuperInstruction(0, SourceOf(ComponentsOf(ctx.op))).ins[1].opcode
              = ctx.op
        /\ ~ctx.ret.panic
        /\ ctx.ret.price = static_gas_prices[ctx.op]
        /\ ctx.ret.price = SumPrices(ComponentsOf(ctx.op))
        /\ ctx.op = "PUSH1_PUSH1_PUSH1_SHL_SUB" => ctx.ret.price = 15
        /\ ctx.op = "ISZERO_PUSH2_JUMPI" => ctx.ret.price = 16
        /\ Len(SUPEROPS) = 20

\* C20 witness: the price of ISZERO_PUSH2_JUMPI has been looked up
SuperPriceLookedUp ==
    /\ ctx.status = "priced"
    /\ ctx.op = "ISZERO_PUSH2_JUMPI"
    /\ ctx.ret = [price |-> 16, panic |-> FALSE]

----------------------------------------------------------------------------
(* The evaluation stack                                                    *)
(*                                                                         *)
(* A stack is [data, stack_ptr, panic]: data holds the array up to its   *)
(* highest element written so far (data[n + 1] is element n); every        *)
(* element beyond it holds the zero value.  panic records an index outside *)
(* the array.                                                              *)

MAX_STACK_SIZE == 1024

\* a stack value the model does not compute
Unknown == -1

\* a stack from the pool with stack_ptr set as the tests set it
StackAt(stackPtr) ==
    [data |-> <<>>, stack_ptr |-> stackPtr, panic |-> FALSE]

InArray(n) == n >= 0 /\ n < MAX_STACK_SIZE

\* s.data[n]
dataAt(s, n) == IF n < Len(s.data) THEN s.data[n + 1] ELSE 0

\* s.data[n] = d
dataPut(s, n, d) ==
    IF ~InArray(n) THEN [s EXCEPT !.panic = TRUE]
    ELSE IF n < Len(s.data) THEN [s EXCEPT !.data[n + 1] = d]
    ELSE [s EXCEPT !.data = @ \o [k \in 1..(n - Len(@)) |-> 0] \o <<d>>]

\* push with the write of the value left out
pushNoWrite(s, d) ==
    IF InArray(s.stack_ptr) THEN [s EXCEPT !.stack_ptr = @ + 1]
    ELSE [s EXCEPT !.panic = TRUE]

\* Stack.push
push(s, d) ==
    LET t == dataPut(s, s.stack_ptr, d) IN
    IF t.panic THEN t ELSE [t EXCEPT !.stack_ptr = @ + 1]

\* Stack.pop: the stack after the pop; the popped value is peek before it
pop(s) ==
    IF InArray(s.stack_ptr - 1)
    THEN [s EXCEPT !.stack_ptr = @ - 1]
    ELSE [s EXCEPT !.stack_ptr = @ - 1, !.panic = TRUE]

\* Stack.len
len(s) == s.stack_ptr

\* Stack.Back
Back(s, n) == dataAt(s, len(s) - n - 1)

\* Stack.swap
swap(s, n) ==
    IF InArray(len(s) - n) /\ InArray(len(s) - 1)
    THEN LET a == dataAt(s, len(s) - n)
             b == dataAt(s, len(s) - 1)
         IN  dataPut(dataPut(s, len(s) - n, b), len(s) - 1, a)
    ELSE [s EXCEPT !.panic = TRUE]

\* Stack.dup
dup(s, n) ==
    IF InArray(s.stack_ptr - n)
    THEN push(s, dataAt(s, s.stack_ptr - n))
    ELSE [s EXCEPT !.panic = TRUE]

----------------------------------------------------------------------------
(* The interpreter: the execution context, UseGas and the dispatch loop    *)
(*                                                                         *)
(* A context is [code, pc, status, gas, stack, readOnly] and the history   *)
(* of its run: gasIn and spIn are the gas and the stack height it started  *)
(* with, trace lists the opcodes dispatched so far.  Dynamic gas, memory   *)
(* and the world state are outside the model: an opcode that uses them     *)
(* pops its inputs and pushes Unknown results.                             *)

Terminal == {"STOPPED", "RETURNED", "REVERTED", "SUICIDED", "OUT_OF_GAS",
             "ERROR"}

\* the number of the opcode among its family: k of PUSHk, DUPk, SWAPk, LOGk
IndexIn(ops, op) == CHOOSE k \in DOMAIN ops : ops[k] = op

\* the stack inputs and outputs of a plain opcode
Pops(op) ==
    CASE op \in Elements(DUPOPS) -> IndexIn(DUPOPS, op)
      [] op \in Elements(SWAPOPS) -> IndexIn(SWAPOPS, op) + 1
      [] op \in Elements(LOGOPS) -> IndexIn(LOGOPS, op) + 1
      [] op \in {"ISZERO", "NOT", "BALANCE", "CALLDATALOAD", "EXTCODESIZE",
                 "EXTCODEHASH", "BLOCKHASH", "MLOAD", "SLOAD", "POP", "JUMP",
                 "SELFDESTRUCT"} -> 1
      [] op \in {"ADD", "MUL", "SUB", "DIV", "SDIV", "MOD", "SMOD", "EXP",
                 "SIGNEXTEND", "LT", "GT", "SLT", "SGT", "EQ", "AND", "OR",
                 "XOR", "BYTE", "SHL", "SHR", "SAR", "SHA3", "MSTORE",
                 "MSTORE8", "SSTORE", "JUMPI", "RETURN", "REVERT"} -> 2
      [] op \in {"ADDMOD", "MULMOD", "CREATE", "CALLDATACOPY", "CODECOPY",
                 "RETURNDATACOPY"} -> 3
      [] op \in {"EXTCODECOPY", "CREATE2"} -> 4
      [] op \in {"STATICCALL", "DELEGATECALL"} -> 6
      [] op \in {"CALL", "CALLCODE"} -> 7
      [] OTHER -> 0

Pushes(op) ==
    CASE op \in Elements(PUSHOPS) -> 1
      [] op \in Elements(DUPOPS) -> IndexIn(DUPOPS, op) + 1
      [] op \in Elements(SWAPOPS) -> IndexIn(SWAPOPS, op) + 1
      [] op \in {"ADDRESS", "ORIGIN", "CALLER", "CALLVALUE", "CALLDATASIZE",
                 "CODESIZE", "GASPRICE", "RETURNDATASIZE", "COINBASE",
                 "TIMESTAMP", "NUMBER", "DIFFICULTY", "GASLIMIT", "CHAINID",
                 "SELFBALANCE", "BASEFEE", "PC", "MSIZE", "GAS"} -> 1
      [] op \in {"ISZERO", "NOT", "BALANCE", "CALLDATALOAD", "EXTCODESIZE",
                 "EXTCODEHASH", "BLOCKHASH", "MLOAD", "SLOAD"} -> 1
      [] op \in {"ADD", "MUL", "SUB", "DIV", "SDIV", "MOD", "SMOD", "EXP",
                 "SIGNEXTEND", "LT", "GT", "SLT", "SGT", "EQ", "AND", "OR",
                 "XOR", "BYTE", "SHL", "SHR", "SAR", "SHA3"} -> 1
      [] op \in {"ADDMOD", "MULMOD", "CREATE", "CREATE2", "CALL", "CALLCODE",
                 "STATICCALL", "DELEGATECALL"} -> 1
      [] OTHER -> 0

Max(a, b) == IF a >= b THEN a ELSE b

\* the stack use of a sequence of plain opcodes run in order: the entries
\* it needs below it and its net change of the stack height
RECURSIVE StackUseFrom(_, _, _)
StackUseFrom(names, need, cur) ==
    IF names = <<>> THEN [need |-> need, delta |-> cur]
    ELSE StackUseFrom(Tail(names), Max(need, Pops(names[1]) - cur),
                      cur - Pops(names[1]) + Pushes(names[1]))

\* required_in and delta of an opcode; a super-instruction has the
\* aggregate of its components
StackUse(op) ==
    IF op \in Elements(SUPEROPS) THEN StackUseFrom(ComponentsOf(op), 0, 0)
    ELSE StackUseFrom(<<op>>, 0, 0)

\* the opcodes rejected in a read-only context
WriteOps == {"SSTORE", "CREATE", "CREATE2", "SELFDESTRUCT"}
                \cup Elements(LOGOPS)

UseGasAlways(c, amount) ==
    [c |-> [c EXCEPT !.gas = IF amount <= @ THEN @ - amount ELSE 0],
     ok |-> TRUE]

\* context.UseGas
UseGas(c, amount) ==
    IF c.gas < amount
    THEN [c |-> [c EXCEPT !.status = "OUT_OF_GAS"], ok |-> FALSE]
    ELSE [c |-> [c EXCEPT !.gas = @ - amount], ok |-> TRUE]

\* the top n entries of the window w, and w without them
DropN(w, n) == SubSeq(w, 1, Len(w) - n)

Unknowns(n) == [j \in 1..n |-> Unknown]

\* the value a PUSHk pushes: the immediate bytes the translator packed
\* into the argument (PUSH1 in the high byte); longer immediates are not
\* computed
PushValue(op, arg) ==
    IF op = "PUSH1" THEN arg \div 256
    ELSE IF op = "PUSH2" THEN arg
    ELSE Unknown

Falls == [kind |-> "next", target |-> 0, status |-> "RUNNING"]

Jumps(target) == [kind |-> "jump", target |-> target, status |-> "RUNNING"]

Goes(target) == [kind |-> "goto", target |-> target, status |-> "RUNNING"]

Halts(st) == [kind |-> "halt", target |-> 0, status |-> st]

\* the effect of one plain instruction on the window of stack entries w
\* (top of stack last): the new window and what happens to pc and status
ExecPlain(w, ins) ==
    LET op == ins.opcode
        n == Len(w)
    IN  CASE op \in Elements(PUSHOPS) ->
               [w |-> Append(w, PushValue(op, ins.arg)), ctl |-> Falls]
          [] op = "PC" -> [w |-> Append(w, ins.arg), ctl |-> Falls]
          [] op = "POP" -> [w |-> DropN(w, 1), ctl |-> Falls]
          [] op \in Elements(DUPOPS) ->
               [w |-> Append(w, w[n - IndexIn(DUPOPS, op) + 1]),
                ctl |-> Falls]
          [] op \in Elements(SWAPOPS) ->
               LET k == n - IndexIn(SWAPOPS, op) IN
               [w |-> [w EXCEPT ![n] = w[k], ![k] = w[n]], ctl |-> Falls]
          [] op = "ISZERO" ->
               [w |-> Append(DropN(w, 1),
                             IF w[n] = Unknown THEN Unknown
                             ELSE IF w[n] = 0 THEN 1 ELSE 0),
                ctl |-> Falls]
          [] op = "JUMP" -> [w |-> DropN(w, 1), ctl |-> Jumps(w[n])]
          [] op = "JUMPI" ->
               [w |-> DropN(w, 2),
                ctl |-> IF w[n - 1] = 0 THEN Falls ELSE Jumps(w[n])]
          [] op = "JUMP_TO" -> [w |-> w, ctl |-> Goes(ins.arg)]
          [] op = "STOP" -> [w |-> w, ctl |-> Halts("STOPPED")]
          [] op = "RETURN" -> [w |-> DropN(w, 2), ctl |-> Halts("RETURNED")]
          [] op = "REVERT" -> [w |-> DropN(w, 2), ctl |-> Halts("REVERTED")]
          [] op = "SELFDESTRUCT" ->
               [w |-> DropN(w, 1), ctl |-> Halts("SUICIDED")]
          [] op \in {"INVALID", "DATA"} -> [w |-> w, ctl |-> Halts("ERROR")]
          [] OTHER ->
               [w |-> DropN(w, Pops(op)) \o Unknowns(Pushes(op)),
                ctl |-> Falls]

\* the components of a super-instruction run in order on the window; a
\* jump or a halt can only be the last of them
RECURSIVE ExecAll(_, _)
ExecAll(w, inss) ==
    IF Len(inss) = 1 THEN ExecPlain(w, inss[1])
    ELSE ExecAll(ExecPlain(w, inss[1]).w, Tail(inss))

\* the number of code slots an instruction occupies: a PUSHk and the two
\* super-instructions with long immediates are followed by DATA slots
Slots(op) ==
    IF op \in Elements(PUSHOPS) THEN PushSlots(IndexIn(PUSHOPS, op))
    ELSE IF op = "PUSH1_PUSH4_DUP3" THEN 3
    ELSE IF op = "PUSH1_PUSH1_PUSH1_SHL_SUB" THEN 2
    ELSE 1

NotData(x) == x.opcode # "DATA"

\* the window of the top n stack entries, bottom first
Window(s, n) == [j \in 1..n |-> dataAt(s, len(s) - n + j - 1)]

\* the top n entries of the stack replaced by the entries of w
replaceTop(s, n, w) ==
    LET base == len(s) - n
        size == Max(Len(s.data), base + Len(w))
    IN  [s EXCEPT !.data = [k \in 1..size |->
                               IF k > base /\ k <= base + Len(w)
                               THEN w[k - base] ELSE dataAt(s, k - 1)],
                  !.stack_ptr = base + Len(w)]

\* the stack after the instruction ins whose effect on the window is w:
\* the plain stack instructions act through the stack's own operations
StackAfter(s, ins, need, w) ==
    LET op == ins.opcode IN
    CASE op \in Elements(PUSHOPS) -> push(s, PushValue(op, ins.arg))
      [] op = "PC" -> push(s, ins.arg)
      [] op = "POP" -> pop(s)
      [] op \in Elements(DUPOPS) -> dup(s, IndexIn(DUPOPS, op))
      [] op \in Elements(SWAPOPS) -> swap(s, IndexIn(SWAPOPS, op) + 1)
      [] OTHER -> replaceTop(s, need, w)

\* a jump target is an index of the code that holds a JUMPDEST
ValidTarget(c, target) ==
    /\ target >= 0 /\ target < Len(c.code)
    /\ At(c.code, target).opcode = "JUMPDEST"

JumpAnywhere(c, target) == target >= 0

\* whether JUMP and JUMPI may set pc to target
JumpAllowed(c, target) == ValidTarget(c, target)

Fail(c, st) == [c EXCEPT !.status = st]

\* a call made on the state database
Called(db, name) == [db EXCEPT !.calls = Append(@, name)]

\* the state database the SLOAD tests mock: what SlotInAccessList answers
\* for the slot and the calls made so far
MockStateDB(slotPresent) == [slotPresent |-> slotPresent, calls |-> <<>>]

opSloadAddsAlways(c) ==
    LET asked == IF c.isBerlin THEN Called(c.db, "SlotInAccessList") ELSE c.db
        added == IF c.isBerlin
                 THEN Called(asked, "AddSlotToAccessList")
                 ELSE asked
    IN  Called(added, "GetState")

\* the state database calls of SLOAD: under Berlin the access list is
\* consulted and a cold slot added to it, then the slot is read
opSload(c) ==
    LET asked == IF c.isBerlin THEN Called(c.db, "SlotInAccessList") ELSE c.db
        added == IF c.isBerlin /\ ~c.db.slotPresent
                 THEN Called(asked, "AddSlotToAccessList")
                 ELSE asked
    IN  Called(added, "GetState")

\* the opcode effect: the stack entries it uses are replaced by its
\* results and pc and status follow its control outcome
Execute(c) ==
    LET ins == At(c.code, c.pc)
        op == ins.opcode
        use == StackUse(op)
    IN  IF c.pc + Slots(op) > Len(c.code)
        THEN Fail(c, "PANIC")
        ELSE LET parts == ExpandAt(c.code, c.pc + 1).ins
                 comps == <<Head(parts)>> \o SelectSeq(Tail(parts), NotData)
                 r == ExecAll(Window(c.stack, use.need), comps)
                 st == StackAfter(c.stack, ins, use.need, r.w)
                 d == [c EXCEPT !.stack = st, !.trace = Append(@, op),
                                !.db = IF op = "SLOAD" THEN opSload(c) ELSE @]
             IN  CASE r.ctl.kind = "next" ->
                        [d EXCEPT !.pc = @ + Slots(op)]
                   [] r.ctl.kind = "goto" -> [d EXCEPT !.pc = r.ctl.target]
                   [] r.ctl.kind = "jump" ->
                        IF JumpAllowed(c, r.ctl.target)
                        THEN [d EXCEPT !.pc = r.ctl.target]
                        ELSE Fail(d, "ERROR")
                   [] OTHER -> Fail(d, r.ctl.status)

UnderflowNever(c, use) == FALSE

\* the stack pre-checks: underflow, then overflow
Underflow(c, use) == len(c.stack) < use.need

OverflowNever(c, use) == FALSE

Overflow(c, use) == len(c.stack) > MAX_STACK_SIZE - use.delta

\* one turn of the dispatch loop at code[pc]: the pre-checks in order,
\* the static gas charge, the effect
Dispatch(c) ==
    LET op == At(c.code, c.pc).opcode
        use == StackUse(op)
        price == getStaticGasPrice(op)
    IN  IF Underflow(c, use) THEN Fail(c, "ERROR")
        ELSE IF Overflow(c, use) THEN Fail(c, "ERROR")
        ELSE IF c.readOnly /\ op \in WriteOps THEN Fail(c, "ERROR")
        ELSE IF price.panic THEN Fail(c, "PANIC")
        ELSE LET g == UseGas(c, price.price) IN
             IF ~g.ok THEN g.c ELSE Execute(g.c)

\* a context as getContext builds it, ready to run
Context(c, stackPtr, gas, readOnly) ==
    [code |-> c, pc |-> 0, status |-> "RUNNING", gas |-> gas,
     gasIn |-> gas, spIn |-> stackPtr, stack |-> StackAt(stackPtr),
     readOnly |-> readOnly, trace |-> <<>>, isBerlin |-> FALSE,
     db |-> MockStateDB(FALSE)]

\* longest program of long-form instructions run from an empty stack
MaxProg == 4
\* the gas a test contract is created with: more than any static price
\* (the tests use 1<<63)
TestGas == 100000

\* the one-instruction programs of the tests: the instruction with
\* argument 1, followed by the DATA slots it reads
OneOp(op) == <<Ins(op, 1)>> \o [j \in 1..(Slots(op) - 1) |-> Ins("DATA", 1)]

\* the opcodes the interpreter dispatches: NOOP and DATA are only skipped
TestOps == OpCodes \ {"NOOP", "DATA"}

\* stack heights of the tests: empty, twenty entries, full
TestStackPtrs == {0, 20, MAX_STACK_SIZE}

OneOpContexts ==
    {Context(OneOp(op), sp, gas, ro) :
        op \in TestOps, sp \in TestStackPtrs, gas \in {0, TestGas},
        ro \in BOOLEAN}

\* the instructions of the programs that jump
ProgIns ==
    {Ins("PUSH1", v * 256) : v \in 0..3}
        \cup {Ins(o, 0) : o \in {"JUMP", "JUMPI", "JUMPDEST", "POP", "STOP"}}

Programs == UNION {[1..n -> ProgIns] : n \in 1..MaxProg}

ProgramContexts ==
    {Context(c, 0, gas, FALSE) : c \in Programs, gas \in {12, 40}}

\* the program of the SLOAD tests
SloadOK == <<Ins("PUSH1", 0), Ins("SLOAD", 0)>>

\* the contexts of the tests SLOAD OK, SLOAD Berlin OK and SLOAD Berlin no
\* slot OK
SloadContexts ==
    {[Context(SloadOK, 0, gas, TRUE) EXCEPT
         !.isBerlin = isBerlin, !.db = MockStateDB(slotPresent)] :
        gas \in {12, TestGas}, isBerlin \in BOOLEAN,
        slotPresent \in BOOLEAN}

InitRun ==
    /\ code = <<>>
    /\ si = FALSE
    /\ i = 0
    /\ res = <<>>
    /\ status = "run"
    /\ out = NoOut
    /\ cache = EmptyCache
    /\ gor = [g \in Goroutines |-> Idle]
    /\ calls = {}
    /\ ncalls = 0
    /\ hc = NoHashCache
    /\ hcall = NoHashCall
    /\ ctx \in OneOpContexts \cup ProgramContexts \cup SloadContexts

\* run: one turn of the loop while status is RUNNING and pc is in the code
RunStep ==
    /\ ctx.status = "RUNNING"
    /\ ctx.pc < Len(ctx.code)
    /\ ctx' = Dispatch(ctx)
    /\ UNCHANGED <<code, si, i, res, status, out, cache, gor, calls, ncalls>>
    /\ UNCHANGED <<hc, hcall>>

RunPastFails(c) == [c EXCEPT !.status = "ERROR"]

\* pc past the last instruction: the run stops
RunPast(c) == [c EXCEPT !.status = "STOPPED"]

\* run: the loop finds pc past the end of the code
RunEnd ==
    /\ ctx.status = "RUNNING"
    /\ ctx.pc >= Len(ctx.code)
    /\ ctx' = RunPast(ctx)
    /\ UNCHANGED <<code, si, i, res, status, out, cache, gor, calls, ncalls>>
    /\ UNCHANGED <<hc, hcall>>

NextRun == RunStep \/ RunEnd

SpecRun == InitRun /\ [][NextRun]_vars


\* the opcode lists of TestStackBoundry
fullStackFailOpCodes ==
    {"MSIZE", "ADDRESS", "ORIGIN", "CALLER", "CALLVALUE", "CALLDATASIZE",
     "CODESIZE", "GASPRICE", "COINBASE", "TIMESTAMP", "NUMBER",
     "DIFFICULTY", "GASLIMIT", "PC", "GAS", "RETURNDATASIZE",
     "SELFBALANCE", "CHAINID", "BASEFEE",
     "PUSH1_PUSH1_PUSH1_SHL_SUB",
     "PUSH1_DUP1", "PUSH1_PUSH1", "PUSH1_PUSH4_DUP3"}

emptyStackFailOpCodes ==
    {"POP", "ADD", "SUB", "MUL", "DIV", "SDIV", "MOD", "SMOD", "EXP",
     "SIGNEXTEND", "SHA3", "LT", "GT", "SLT", "SGT", "EQ", "AND", "XOR",
     "OR", "BYTE", "SHL", "SHR", "SAR", "ADDMOD", "MULMOD", "ISZERO", "NOT",
     "BALANCE", "CALLDATALOAD", "EXTCODESIZE", "BLOCKHASH", "MLOAD",
     "SLOAD", "EXTCODEHASH", "JUMP", "SELFDESTRUCT", "MSTORE", "MSTORE8",
     "SSTORE", "JUMPI", "RETURN", "REVERT", "CALLDATACOPY", "CODECOPY",
     "RETURNDATACOPY", "EXTCODECOPY", "CREATE", "CREATE2", "CALL",
     "CALLCODE", "STATICCALL", "DELEGATECALL", "POP_POP", "POP_JUMP",
     "SWAP2_POP", "PUSH1_ADD", "PUSH1_SHL", "SWAP2_SWAP1_POP_JUMP",
     "PUSH2_JUMPI", "ISZERO_PUSH2_JUMPI", "SWAP2_SWAP1", "DUP2_LT",
     "SWAP1_POP_SWAP2_SWAP1", "POP_SWAP2_SWAP1_POP",
     "AND_SWAP1_POP_SWAP2_SWAP1", "SWAP1_POP", "DUP2_MSTORE"}

\* addEmptyStackFailOpCodes and addFullStackFailOpCodes
UnderflowTestOps ==
    emptyStackFailOpCodes \cup Elements(DUPOPS) \cup Elements(SWAPOPS)
        \cup Elements(LOGOPS)

OverflowTestOps ==
    fullStackFailOpCodes \cup Elements(PUSHOPS) \cup Elements(DUPOPS)

\* the context is as it was when the run started
Untouched ==
    /\ ctx.pc = 0
    /\ ctx.gas = ctx.gasIn
    /\ ctx.stack = StackAt(ctx.spIn)
    /\ ctx.trace = <<>>

\* C13: a program of one instruction started on the empty stack ends in
\* ERROR for every opcode of the empty-stack-fail list, DUP1..DUP16,
\* SWAP1..SWAP16 and LOG0..LOG4, whatever the gas and the read-only flag,
\* and the failed check leaves pc, gas and stack as they were.
EmptyStackFails ==
    (ctx.spIn = 0 /\ ctx.code[1].opcode \in UnderflowTestOps) =>
        /\ Untouched
        /\ ctx.status \in {"RUNNING", "ERROR"}

\* C13 witness: the one-instruction program SWAP16 has run on the empty
\* stack with the gas of the tests
UnderflowReported ==
    /\ ctx.code = <<Ins("SWAP16", 1)>>
    /\ ctx.spIn = 0
    /\ ctx.gasIn = TestGas
    /\ ctx.status = "ERROR"

\* C14: a program of one instruction started on the full stack ends in
\* ERROR for every opcode of the full-stack-fail list, PUSH1..PUSH32 and
\* DUP1..DUP16, leaving the context as it was, and the stack pointer never
\* exceeds 1024.
FullStackFails ==
    /\ ctx.stack.stack_ptr <= 1024
    /\ ~ctx.stack.panic
    /\ (ctx.spIn = 1024 /\ ctx.code[1].opcode \in OverflowTestOps) =>
          /\ Untouched
          /\ ctx.status \in {"RUNNING", "ERROR"}

\* C14 witness: the one-instruction program PUSH32 has run on the full
\* stack
OverflowReported ==
    /\ ctx.code = OneOp("PUSH32")
    /\ ctx.spIn = 1024
    /\ ctx.gasIn = TestGas
    /\ ctx.status = "ERROR"

(***************************************************************************)
(* UseGas called on its own, as TestGasFunc calls it: ctx holds the        *)
(* context and the amount and the result of the last call.                 *)
(***************************************************************************)
MaxGas == 8

\* the gas values of TestGasFunc beside the small ones
GasValues == 0..MaxGas \cup {10, 90, 100}

\* getEmptyContext with contract.Gas set by the caller
InitGas ==
    /\ code = <<>>
    /\ si = FALSE
    /\ i = 0
    /\ res = <<>>
    /\ status = "gas"
    /\ out = NoOut
    /\ cache = EmptyCache
    /\ gor = [g \in Goroutines |-> Idle]
    /\ calls = {}
    /\ ncalls = 0
    /\ hc = NoHashCache
    /\ hcall = NoHashCall
    /\ \E g \in GasValues :
          ctx = [c |-> Context(<<>>, 0, g, TRUE), called |-> FALSE,
                 amount |-> 0, ok |-> TRUE]

\* ok := ctx.UseGas(amount)
CallUseGas(amount) ==
    /\ status = "gas"
    /\ LET r == UseGas(ctx.c, amount)
       IN  ctx' = [c |-> r.c, called |-> TRUE, amount |-> amount,
                   ok |-> r.ok]
    /\ UNCHANGED <<code, si, i, res, status, out, cache, gor, calls, ncalls>>
    /\ UNCHANGED <<hc, hcall>>

NextGas == \E amount \in GasValues \cup {MaxGas + 1} : CallUseGas(amount)

SpecGas == InitGas /\ [][NextGas]_vars

\* what C15 says one call of UseGas does to the context before it
UseGasStep ==
    LET g == ctx.c.gas
        a == ctx'.amount
    IN  /\ a <= g =>
              /\ ctx'.ok
              /\ ctx'.c = [ctx.c EXCEPT !.gas = g - a]
        /\ a > g =>
              /\ ~ctx'.ok
              /\ ctx'.c = [ctx.c EXCEPT !.status = "OUT_OF_GAS"]
        /\ ctx'.c.gas >= 0

\* C15: UseGas(amount) on gas g returns true, leaves g - amount and keeps
\* the status when amount <= g; otherwise it returns false, keeps the gas
\* at g and sets the status to OUT_OF_GAS.
UseGasCharges == [][UseGasStep]_vars

\* C15 witness: TestGasFunc after its second call: 100 asked of the 90
\* left, refused, gas still 90, status OUT_OF_GAS
UseGasRefused ==
    /\ status = "gas"
    /\ ctx.called
    /\ ctx.amount = 100
    /\ ~ctx.ok
    /\ ctx.c.gas = 90
    /\ ctx.c.gasIn = 100
    /\ ctx.c.status = "OUT_OF_GAS"

\* the programs of the tests JUMP OK and JUMPI OK
JumpOK == <<Ins("PUSH1", 2 * 256), Ins("JUMP", 0), Ins("JUMPDEST", 0)>>

JumpiOK ==
    <<Ins("PUSH1", 1 * 256), Ins("PUSH1", 3 * 256), Ins("JUMPI", 0),
      Ins("JUMPDEST", 0)>>

\* the loop is about to execute the JUMP or JUMPI at pc: its inputs are on
\* the stack and its static gas is covered
AtJump ==
    /\ status = "run"
    /\ ctx.status = "RUNNING"
    /\ ctx.pc < Len(ctx.code)
    /\ \/ /\ At(ctx.code, ctx.pc).opcode = "JUMP"
          /\ len(ctx.stack) >= 1
          /\ ctx.gas >= 8
       \/ /\ At(ctx.code, ctx.pc).opcode = "JUMPI"
          /\ len(ctx.stack) >= 2
          /\ ctx.gas >= 10

IsJumpdest(target) ==
    /\ target \in 0..(Len(ctx.code) - 1)
    /\ ctx.code[target + 1].opcode = "JUMPDEST"

\* what C16 says the step at a JUMP or JUMPI does
JumpStep ==
    AtJump =>
        LET target == Back(ctx.stack, 0)
            taken == \/ At(ctx.code, ctx.pc).opcode = "JUMP"
                     \/ Back(ctx.stack, 1) # 0
        IN  IF ~taken
            THEN ctx'.status = "RUNNING" /\ ctx'.pc = ctx.pc + 1
            ELSE IF IsJumpdest(target)
            THEN ctx'.status = "RUNNING" /\ ctx'.pc = target
            ELSE ctx'.status = "ERROR"

\* C16: JUMP, and JUMPI with a non-zero condition, set pc to the target
\* only when the instruction there is JUMPDEST; any other target, one at
\* or past the end of the code included, ends the frame in ERROR; JUMPI
\* with a zero condition goes on at the next instruction.  The programs
\* JUMP OK and JUMPI OK therefore end STOPPED.
JumpsLandOnJumpdest ==
    /\ [][JumpStep]_vars
    /\ []((/\ status = "run"
           /\ ctx.code \in {JumpOK, JumpiOK}
           /\ ctx.gasIn >= 17
           /\ ctx.status # "RUNNING") => ctx.status = "STOPPED")

\* C16 witness: JUMPI OK has run to its end through the jump
JumpiOKStopped ==
    /\ status = "run"
    /\ ctx.code = JumpiOK
    /\ ctx.status = "STOPPED"
    /\ ctx.trace = <<"PUSH1", "PUSH1", "JUMPI", "JUMPDEST">>

\* a JUMP to an index past the end of the code has been refused
JumpPastEndRefused ==
    /\ status = "run"
    /\ ctx.code = <<Ins("PUSH1", 3 * 256), Ins("JUMP", 0), Ins("JUMPDEST", 0)>>
    /\ ctx.status = "ERROR"
    /\ ctx.trace = <<"PUSH1", "JUMP">>

\* a JUMPI with a zero condition has gone on at the next instruction
JumpiFellThrough ==
    /\ status = "run"
    /\ ctx.code = <<Ins("PUSH1", 0), Ins("PUSH1", 3 * 256), Ins("JUMPI", 0),
                    Ins("POP", 0)>>
    /\ ctx.status = "ERROR"
    /\ ctx.pc = 3

\* the opcodes from ADD to SAR that addOKOpCodes runs
ArithmeticOps ==
    {"ADD", "MUL", "SUB", "DIV", "SDIV", "MOD", "SMOD", "ADDMOD", "MULMOD",
     "EXP", "SIGNEXTEND", "LT", "GT", "SLT", "SGT", "EQ", "ISZERO", "AND",
     "OR", "XOR", "NOT", "BYTE", "SHL", "SHR", "SAR"}

\* the one-instruction programs of addOKOpCodes: PUSHk with its DATA
\* slots, DUP, SWAP and the arithmetic opcodes
OKPrograms ==
    {OneOp(op) : op \in Elements(PUSHOPS) \cup Elements(DUPOPS)
                          \cup Elements(SWAPOPS) \cup ArithmeticOps}

\* the loop found pc past the last instruction while still RUNNING
PastEndStep ==
    (status = "run" /\ ctx.status = "RUNNING" /\ ctx.pc >= Len(ctx.code)) =>
        ctx' = [ctx EXCEPT !.status = "STOPPED"]

\* C17: whenever run has returned the status is one of STOPPED, RETURNED,
\* REVERTED, SUICIDED, OUT_OF_GAS, ERROR; a run whose pc passes the last
\* instruction while RUNNING becomes STOPPED; and that is how every
\* one-instruction program of PUSH1..PUSH32 (with its DATA slots), DUP,
\* SWAP and the arithmetic opcodes ends when started with 20 stack entries.
RunReturnsTerminal ==
    /\ [](status = "run" => ctx.status \in Terminal \cup {"RUNNING"})
    /\ [][PastEndStep]_vars
    /\ []((/\ status = "run"
           /\ ctx.code \in OKPrograms
           /\ ctx.spIn = 20
           /\ ctx.gasIn = TestGas
           /\ ctx.status # "RUNNING")
             => (/\ ctx.status = "STOPPED"
                 /\ ctx.pc = Len(ctx.code)
                 /\ ctx.trace = <<ctx.code[1].opcode>>))

\* C17 witness: PUSH32 and its fifteen DATA slots have run on 20 stack
\* entries and pc has passed the last slot
Push32Stopped ==
    /\ status = "run"
    /\ ctx.code = OneOp("PUSH32")
    /\ Len(ctx.code) = 16
    /\ ctx.spIn = 20
    /\ ctx.gasIn = TestGas
    /\ ctx.status = "STOPPED"
    /\ ctx.pc = 16
    /\ len(ctx.stack) = 21

(***************************************************************************)
(* The convert loop on codes of n PUSH32 instructions with zero immediates *)
(* followed by a JUMPDEST.  Short codes are converted from the start; the  *)
(* code of LongPushes instructions, longer than 2^16 bytes, is taken up    *)
(* where the loop stands at its JUMPDEST.                                  *)
(***************************************************************************)
MaxPushes == 24

LongPushes == 1986

PushCode(n) ==
    [k \in 1..(33 * n + 1) |->
        IF k = 33 * n + 1 THEN vmJUMPDEST
        ELSE IF k % 33 = 1 THEN vmPUSH32
        ELSE 0]

\* what the loop has written when it stands at the JUMPDEST of PushCode(n)
PushPrefix(n) ==
    [k \in 1..(16 * n) |->
        IF k % 16 = 1 THEN Ins("PUSH32", 0) ELSE Ins("DATA", 0)]

InitLong ==
    /\ \/ \E n \in 1..MaxPushes :
             /\ code = PushCode(n)
             /\ i = 0
             /\ res = <<>>
       \/ /\ code = PushCode(LongPushes)
          /\ i = 33 * LongPushes
          /\ res = PushPrefix(LongPushes)
    /\ si \in BOOLEAN
    /\ status = "loop"
    /\ out = NoOut
    /\ cache = EmptyCache
    /\ gor = [g \in Goroutines |-> Idle]
    /\ calls = {}
    /\ ncalls = 0
    /\ hc = NoHashCache
    /\ hcall = NoHashCall
    /\ ctx = NoContext

SpecLong == InitLong /\ [][Next]_vars

\* the loop standing at the JUMPDEST of a code has written the PUSH32
\* instructions as PushPrefix gives them
PrefixIsTranslation ==
    (status = "loop" /\ i = Len(code) - 1) => res = PushPrefix(i \div 33)

\* the JUMP_TO at index j (from 0) of r goes to the next JUMPDEST behind it
\* over nothing but NOOP padding
JumpsToNextJumpdest(r, j) ==
    LET target == r[j + 1].arg
    IN  /\ target > j
        /\ target < Len(r)
        /\ r[target + 1].opcode = "JUMPDEST"
        /\ \A k \in (j + 1)..(target - 1) : r[k + 1].opcode = "NOOP"

StaticOnlyOps ==
    Elements(PUSHOPS) \cup Elements(DUPOPS) \cup Elements(SWAPOPS)
        \cup (ArithmeticOps \ {"EXP"})
        \cup {"POP", "JUMP", "JUMPI", "JUMPDEST", "JUMP_TO", "PC", "STOP"}

\* op and, for a super-instruction, each of its components is charged its
\* static price only
StaticOnly(op) ==
    IF op \in Elements(SUPEROPS)
    THEN \A k \in DOMAIN ComponentsOf(op) : ComponentsOf(op)[k] \in StaticOnlyOps
    ELSE op \in StaticOnlyOps

\* the programs of the two gas scenarios
PushPopStop == <<Ins("PUSH1", 1 * 256), Ins("POP", 0), Ins("STOP", 0)>>

JumpStop ==
    <<Ins("PUSH1", 2 * 256), Ins("JUMP", 0), Ins("JUMPDEST", 0),
      Ins("STOP", 0)>>

\* C19: a program that ends STOPPED having dispatched only instructions
\* without dynamic gas has consumed the sum of their static prices:
\* PUSH1 1, POP, STOP consumes 5 and PUSH1 2, JUMP, JUMPDEST, STOP
\* consumes 12 and ends with pc at the STOP.
GasIsSumOfStaticPrices ==
    (status = "run" /\ ctx.status = "STOPPED") =>
        /\ (\A k \in DOMAIN ctx.trace : StaticOnly(ctx.trace[k])) =>
              ctx.gasIn - ctx.gas = SumPrices(ctx.trace)
        /\ ctx.code = PushPopStop =>
              ctx.gasIn - ctx.gas = 5 /\ ctx.pc = 2
        /\ ctx.code = JumpStop =>
              ctx.gasIn - ctx.gas = 12 /\ ctx.pc = 3

\* C19 witness: PUSH1 2, JUMP, JUMPDEST, STOP has stopped at its STOP on
\* exactly the 12 gas it was given
JumpStopOnTwelve ==
    /\ status = "run"
    /\ ctx.code = JumpStop
    /\ ctx.gasIn = 12
    /\ ctx.gas = 0
    /\ ctx.status = "STOPPED"
    /\ ctx.pc = 3
    /\ ctx.trace = <<"PUSH1", "JUMP", "JUMPDEST", "STOP">>

----------------------------------------------------------------------------
(***************************************************************************)
(* The gas of SSTORE, part_008:268-338.  The state database holds one      *)
(* storage slot: its committed (original) value, its current value, the    *)
(* refund counter and the list of the calls made on it.  Slot values are   *)
(* small numbers, 0 being the zero hash.                                   *)
(***************************************************************************)
\* the variables a specification of one function leaves idle
IdleRest ==
    /\ code = <<>>
    /\ si = FALSE
    /\ i = 0
    /\ res = <<>>
    /\ out = NoOut
    /\ cache = EmptyCache
    /\ gor = [g \in Goroutines |-> Idle]
    /\ calls = {}
    /\ ncalls = 0
    /\ hc = NoHashCache
    /\ hcall = NoHashCall

RestUnchanged ==
    UNCHANGED <<code, si, i, res, status, out, cache, gor, calls, ncalls,
                hc, hcall>>

SstoreSentryGasEIP2200 == 2300
SloadGasEIP2200 == 800
SstoreSetGasEIP2200 == 20000
SstoreResetGasEIP2200 == 5000
SstoreClearsScheduleRefundEIP2200 == 15000

\* the common.Hash values of the model
Words == {0, 1, 2}

StateDB(original, current, refund) ==
    [original |-> original, current |-> current, refund |-> refund,
     calls |-> <<>>, refunds |-> <<>>]

\* db.refunds lists the amounts added to (and, negated, taken off) the
\* refund counter
AddRefund(db, gas) ==
    [Called(db, "AddRefund") EXCEPT !.refund = @ + gas,
                                    !.refunds = Append(@, gas)]

SubRefund(db, gas) ==
    [Called(db, "SubRefund") EXCEPT !.refund = @ - gas,
                                    !.refunds = Append(@, 0 - gas)]

\* the result of gasSStore: the context, the database, the gas and
\* whether an error is returned
GasResult(c, db, gas, err) == [c |-> c, db |-> db, gas |-> gas, err |-> err]

SentryBelow(c) == c.gas < SstoreSentryGasEIP2200

\* if c.contract.Gas <= params.SstoreSentryGasEIP2200
SentryTrips(c) == c.gas <= SstoreSentryGasEIP2200

\* CleanSlot without the refund for clearing the slot
CleanSlotNoRefund(c, db, original, value) ==
    IF original = 0
    THEN GasResult(c, db, SstoreSetGasEIP2200, FALSE)
    ELSE GasResult(c, db, SstoreResetGasEIP2200, FALSE)

\* original == current: create the slot, or write (and maybe delete) it
CleanSlot(c, db, original, value) ==
    IF original = 0
    THEN GasResult(c, db, SstoreSetGasEIP2200, FALSE)
    ELSE GasResult(c,
                   IF value = 0
                   THEN AddRefund(db, SstoreClearsScheduleRefundEIP2200)
                   ELSE db,
                   SstoreResetGasEIP2200, FALSE)

DirtyRefundKept(db, original, current, value) == db

\* the refund of a dirty slot with original != 0
DirtyRefund(db, original, current, value) ==
    IF original # 0
    THEN IF current = 0
         THEN SubRefund(db, SstoreClearsScheduleRefundEIP2200)
         ELSE IF value = 0
         THEN AddRefund(db, SstoreClearsScheduleRefundEIP2200)
         ELSE db
    ELSE db

ResetRefundNone(db, original, value) == db

\* the refund of a slot reset to its original value
ResetRefund(db, original, value) ==
    IF original = value
    THEN IF original = 0
         THEN AddRefund(db, SstoreSetGasEIP2200 - SloadGasEIP2200)
         ELSE AddRefund(db, SstoreResetGasEIP2200 - SloadGasEIP2200)
    ELSE db

gasSStoreEIP2200(c, db) ==
    IF SentryTrips(c)
    THEN GasResult([c EXCEPT !.status = "OUT_OF_GAS"], db, 0, TRUE)
    ELSE LET value == Back(c.stack, 1)
             d1 == Called(db, "GetState")
             current == db.current
         IN  IF current = value
             THEN GasResult(c, d1, SloadGasEIP2200, FALSE)
             ELSE LET d2 == Called(d1, "GetCommittedState")
                      original == db.original
                  IN  IF original = current
                      THEN CleanSlot(c, d2, original, value)
                      ELSE GasResult(
                             c,
                             ResetRefund(
                               DirtyRefund(d2, original, current, value),
                               original, value),
                             SloadGasEIP2200, FALSE)

gasSStore(c, db) == gasSStoreEIP2200(c, db)

\* a context about to compute the gas of SSTORE: the key on top of the
\* stack, the value below it
SStoreContext(gas, key, value, isLondon) ==
    [status |-> "RUNNING", gas |-> gas, isLondon |-> isLondon,
     stack |-> push(push(StackAt(0), value), key)]

SStoreGas == {SstoreSentryGasEIP2200 - 1, SstoreSentryGasEIP2200,
              SstoreSentryGasEIP2200 + 1, TestGas}

\* the refund counter before the call: a slot cleared earlier in the
\* transaction has been refunded
StartRefunds(original, current) ==
    IF original # 0 /\ current = 0
    THEN {SstoreClearsScheduleRefundEIP2200}
    ELSE {0, SstoreClearsScheduleRefundEIP2200}

InitSStore ==
    /\ IdleRest
    /\ status = "sstore"
    /\ \E gas \in SStoreGas, value \in Words, isLondon \in BOOLEAN,
          original \in Words, current \in Words :
          \E refund \in StartRefunds(original, current) :
             ctx = [c |-> SStoreContext(gas, 1, value, isLondon),
                    db |-> StateDB(original, current, refund),
                    called |-> FALSE, gas |-> 0, err |-> FALSE]

\* gas, err := gasSStore(c)
CallGasSStore ==
    /\ status = "sstore"
    /\ ~ctx.called
    /\ LET r == gasSStore(ctx.c, ctx.db)
       IN  ctx' = [c |-> r.c, db |-> r.db, called |-> TRUE, gas |-> r.gas,
                   err |-> r.err]
    /\ RestUnchanged

NextSStore == CallGasSStore

SpecSStore == InitSStore /\ [][NextSStore]_vars

\* C21: with gas <= 2300 the gas computation of SSTORE sets the status
\* OUT_OF_GAS and returns an error, makes no call on the state database
\* and leaves the refund counter; with gas > 2300 it returns no error and
\* leaves the status.
SentryStep ==
    ~ctx.called =>
        IF ctx.c.gas <= 2300
        THEN /\ ctx'.c.status = "OUT_OF_GAS"
             /\ ctx'.err
             /\ ctx'.gas = 0
             /\ ctx'.db = ctx.db
        ELSE /\ ctx'.c.status = ctx.c.status
             /\ ~ctx'.err

SentryStopsSStore == [][SentryStep]_vars

\* C21 witness: the computation has been refused on exactly 2300 gas
SentryTrippedAtLimit ==
    /\ status = "sstore"
    /\ ctx.called
    /\ ctx.c.gas = 2300
    /\ ctx.c.status = "OUT_OF_GAS"
    /\ ctx.err
    /\ ctx.db.calls = <<>>

\* the refund C22 gives for a dirty slot
DirtyRefundOf(original, current, value) ==
    (IF original # 0 /\ current = 0
     THEN 0 - SstoreClearsScheduleRefundEIP2200 ELSE 0)
    + (IF original # 0 /\ current # 0 /\ value = 0
       THEN SstoreClearsScheduleRefundEIP2200 ELSE 0)
    + (IF value = original /\ original = 0
       THEN SstoreSetGasEIP2200 - SloadGasEIP2200 ELSE 0)
    + (IF value = original /\ original # 0
       THEN SstoreResetGasEIP2200 - SloadGasEIP2200 ELSE 0)

\* what C22 says a call past the sentry returns and refunds
SStoreStep ==
    (~ctx.called /\ ctx.c.gas > SstoreSentryGasEIP2200) =>
        LET original == ctx.db.original
            current == ctx.db.current
            value == Back(ctx.c.stack, 1)
            refunded == ctx'.db.refund - ctx.db.refund
        IN  /\ ~ctx'.err
            /\ IF current = value
               THEN ctx'.gas = SloadGasEIP2200 /\ refunded = 0
               ELSE IF original = current
               THEN IF original = 0
                    THEN ctx'.gas = SstoreSetGasEIP2200 /\ refunded = 0
                    ELSE /\ ctx'.gas = SstoreResetGasEIP2200
                         /\ refunded = IF value = 0
                                       THEN SstoreClearsScheduleRefundEIP2200
                                       ELSE 0
               ELSE /\ ctx'.gas = SloadGasEIP2200
                    /\ refunded = DirtyRefundOf(original, current, value)

\* C22: past the sentry gasSStoreEIP2200 returns SloadGas when current =
\* value; for a clean slot (original = current) SstoreSetGas if original
\* is 0, else SstoreResetGas and the clearing refund iff value is 0; for a
\* dirty slot SloadGas with the clearing refund taken back (original != 0,
\* current = 0) or given (original != 0, current != 0, value = 0) and the
\* reset refund when value = original.
SStoreGasFollowsEIP2200 == [][SStoreStep]_vars

\* C22 witness: a slot cleared earlier (original 1, current 0) has been
\* set back to 1: the clearing refund is taken back and the reset refund
\* given
DirtySlotReset ==
    /\ status = "sstore"
    /\ ctx.called
    /\ ctx.db.original = 1
    /\ ctx.db.current = 0
    /\ Back(ctx.c.stack, 1) = 1
    /\ ctx.gas = 800
    /\ ctx.db.refund = 4200
    /\ ctx.db.calls = <<"GetState", "GetCommittedState", "SubRefund",
                        "AddRefund">>

\* a call with isLondon set that gives or takes back a refund leaves
\* another refund counter than the same call without the flag
LondonStep ==
    (~ctx.called /\ ctx.c.isLondon /\ ctx'.db.refund # ctx.db.refund) =>
        ctx'.db.refund #
            gasSStore([ctx.c EXCEPT !.isLondon = FALSE], ctx.db).db.refund

\* C23: with isLondon set the refunds of the SSTORE gas computation are
\* the London values, not those of EIP-2200: the outcome of gasSStore
\* depends on the flag.
LondonChangesRefund == [][LondonStep]_vars

----------------------------------------------------------------------------
(***************************************************************************)
(* callGas, part_008:227-235.  A 256-bit callCost is [high, low]: low is   *)
(* its 64 low bits, as Uint64() returns them, high is 0 iff the value fits *)
(* 64 bits.  The gas values stay below 2^31; the subtraction is applied    *)
(* with base <= availableGas only, where uint64 does not wrap.             *)
(***************************************************************************)
MaxCallGas == 6

Cost256(high, low) == [high |-> high, low |-> low]

IsUint64(z) == z.high = 0

Uint64(z) == z.low

callGasLowBits(availableGas, base, callCost) ==
    LET a == availableGas - base
        gas == a - (a \div 64)
    IN  IF gas < Uint64(callCost) THEN gas ELSE Uint64(callCost)

callGas(availableGas, base, callCost) ==
    LET a == availableGas - base
        gas == a - (a \div 64)
    IN  IF ~IsUint64(callCost) \/ gas < Uint64(callCost)
        THEN gas
        ELSE Uint64(callCost)

\* gas values around the multiples of 64 beside the small ones
CallGasValues == 0..MaxCallGas \cup {62, 63, 64, 65, 126, 127, 128, 129, 6400}

InitCallGas ==
    /\ IdleRest
    /\ status = "callGas"
    /\ \E availableGas \in CallGasValues, base \in CallGasValues,
          high \in {0, 1}, low \in CallGasValues :
          /\ base <= availableGas
          /\ ctx = [availableGas |-> availableGas, base |-> base,
                    callCost |-> Cost256(high, low), called |-> FALSE,
                    ret |-> 0]

\* callGas(availableGas, base, callCost)
ApplyCallGas ==
    /\ status = "callGas"
    /\ ~ctx.called
    /\ ctx' = [ctx EXCEPT !.called = TRUE,
                          !.ret = callGas(ctx.availableGas, ctx.base,
                                          ctx.callCost)]
    /\ RestUnchanged

NextCallGas == ApplyCallGas

SpecCallGas == InitCallGas /\ [][NextCallGas]_vars

\* all but one 64th of a
AllButOne64th(a) == a - (a \div 64)

\* C24: for base <= availableGas, callGas returns the smaller of callCost
\* and a - floor(a/64) with a = availableGas - base, a callCost that does
\* not fit 64 bits counting as larger than any cap; so the result never
\* exceeds availableGas - base.
CallGasIsCappedCost ==
    (status = "callGas" /\ ctx.called) =>
        LET a == ctx.availableGas - ctx.base
            cap == AllButOne64th(a)
        IN  /\ ctx.callCost.high > 0 => ctx.ret = cap
            /\ (ctx.callCost.high = 0 /\ ctx.callCost.low >= cap) =>
                  ctx.ret = cap
            /\ (ctx.callCost.high = 0 /\ ctx.callCost.low < cap) =>
                  ctx.ret = ctx.callCost.low
            /\ ctx.ret <= a
            /\ ctx.ret >= 0

\* C24 witness: a callCost beyond 64 bits with small low bits has been
\* capped at 6400 - 100 = 6300
WideCostCapped ==
    /\ status = "callGas"
    /\ ctx.called
    /\ ctx.availableGas = 6400
    /\ ctx.base = 0
    /\ ctx.callCost = Cost256(1, 5)
    /\ ctx.ret = 6300

----------------------------------------------------------------------------
\* C25: executing SLOAD reads the slot with GetState exactly once; under
\* Berlin it first asks SlotInAccessList exactly once and calls
\* AddSlotToAccessList exactly once iff the slot is not in the access
\* list; without Berlin it makes no access-list call.  A run that has not
\* executed SLOAD has made no call.
SloadCallsStateDB ==
    (status = "run" /\ ctx.code = SloadOK) =>
        IF \E k \in DOMAIN ctx.trace : ctx.trace[k] = "SLOAD"
        THEN ctx.db.calls =
               IF ~ctx.isBerlin THEN <<"GetState">>
               ELSE IF ctx.db.slotPresent
               THEN <<"SlotInAccessList", "GetState">>
               ELSE <<"SlotInAccessList", "AddSlotToAccessList",
                      "GetState">>
        ELSE ctx.db.calls = <<>>

\* C25 witness: SLOAD Berlin OK has run with the slot in the access list
WarmSloadRead ==
    /\ status = "run"
    /\ ctx.code = SloadOK
    /\ ctx.isBerlin
    /\ ctx.db.slotPresent
    /\ ctx.gasIn = TestGas
    /\ ctx.status = "STOPPED"
    /\ ctx.trace = <<"PUSH1", "SLOAD">>
    /\ ctx.db.calls = <<"SlotInAccessList", "GetState">>

----------------------------------------------------------------------------
(***************************************************************************)
(* The stack pool, part_007:81-96.  ctx.heap lists the Stack objects       *)
(* allocated so far, ctx.pool the objects lying in stackPool, ctx.held the *)
(* objects a caller got from NewStack and has not handed back; a caller    *)
(* works on the stacks it holds.  sync.Pool.Get takes any pooled object    *)
(* or, finding none in reach, calls New.                                   *)
(***************************************************************************)
MaxStacks == 2

MaxDepth == 2

\* stackPool.New: &Stack{}
NewStackObject == StackAt(0)

ReturnStackAsIs(s) == s

\* ReturnStack: s.stack_ptr = 0 (before stackPool.Put(s))
ReturnStack(s) == [s EXCEPT !.stack_ptr = 0]

NoStackCall == [op |-> "none", id |-> 0, len |-> 0]

InitPool ==
    /\ IdleRest
    /\ status = "pool"
    /\ ctx = [heap |-> <<>>, pool |-> {}, held |-> {}, last |-> NoStackCall]

\* NewStack: stackPool.Get() finds the pooled object id
NewStackReused(id) ==
    /\ status = "pool"
    /\ id \in ctx.pool
    /\ ctx' = [ctx EXCEPT !.pool = @ \ {id}, !.held = @ \cup {id},
                          !.last = [op |-> "NewStack", id |-> id,
                                    len |-> len(ctx.heap[id])]]
    /\ RestUnchanged

\* NewStack: stackPool.Get() calls New
NewStackFresh ==
    /\ status = "pool"
    /\ Len(ctx.heap) < MaxStacks
    /\ LET id == Len(ctx.heap) + 1
       IN  ctx' = [ctx EXCEPT !.heap = Append(@, NewStackObject),
                              !.held = @ \cup {id},
                              !.last = [op |-> "NewStack", id |-> id,
                                        len |-> len(NewStackObject)]]
    /\ RestUnchanged

\* s.push(d) on a held stack
PoolPush(id, d) ==
    /\ status = "pool"
    /\ id \in ctx.held
    /\ len(ctx.heap[id]) < MaxDepth
    /\ ctx' = [ctx EXCEPT !.heap[id] = push(@, d),
                          !.last = [op |-> "push", id |-> id,
                                    len |-> len(ctx.heap[id]) + 1]]
    /\ RestUnchanged

\* s.pop() on a held stack that is not empty
PoolPop(id) ==
    /\ status = "pool"
    /\ id \in ctx.held
    /\ len(ctx.heap[id]) > 0
    /\ ctx' = [ctx EXCEPT !.heap[id] = pop(@),
                          !.last = [op |-> "pop", id |-> id,
                                    len |-> len(ctx.heap[id]) - 1]]
    /\ RestUnchanged

\* ReturnStack(s) for a held stack
PoolReturn(id) ==
    /\ status = "pool"
    /\ id \in ctx.held
    /\ ctx' = [ctx EXCEPT !.heap[id] = ReturnStack(@),
                          !.pool = @ \cup {id}, !.held = @ \ {id},
                          !.last = [op |-> "ReturnStack", id |-> id,
                                    len |-> len(ctx.heap[id])]]
    /\ RestUnchanged

NextPool ==
    \/ NewStackFresh
    \/ \E id \in 1..MaxStacks :
          \/ NewStackReused(id)
          \/ PoolPop(id)
          \/ PoolReturn(id)
          \/ \E d \in {1, 2} : PoolPush(id, d)

SpecPool == InitPool /\ [][NextPool]_vars

\* C26: every stack NewStack returns is empty, whether freshly allocated
\* or reused from the pool, in any sequence of NewStack, stack operations
\* on held stacks and ReturnStack; and every stack lying in the pool is
\* empty.
NewStackIsEmpty ==
    (status = "pool") =>
        /\ ctx.last.op = "NewStack" =>
              /\ ctx.last.len = 0
              /\ len(ctx.heap[ctx.last.id]) = 0
        /\ \A id \in ctx.pool : len(ctx.heap[id]) = 0

\* C26 witness: NewStack has handed out again a stack that was returned
\* with two values on it
UsedStackReused ==
    /\ status = "pool"
    /\ ctx.last.op = "NewStack"
    /\ ctx.heap[ctx.last.id].data = <<1, 2>>
    /\ len(ctx.heap[ctx.last.id]) = 0

----------------------------------------------------------------------------
(***************************************************************************)
(* EVMInterpreter.Run, lfvm.go:32-39: Convert on a code the cache does not *)
(* hold, one loop iteration per step, then the interpreter.  ctx.outcome   *)
(* is how the call of Run stands: "converting", "run" once the interpreter *)
(* is entered with the translation, "error" when Run returns (nil, err),   *)
(* "panic" when a panic leaves Run.  Short codes are converted from the    *)
(* start; the code with a PC behind LongPushes PUSH32 instructions, at a   *)
(* position above PCLimit, is taken up where the loop stands at the PC.    *)
(***************************************************************************)
PCCode ==
    [k \in 1..(33 * LongPushes + 1) |->
        IF k = 33 * LongPushes + 1 THEN vmPC
        ELSE IF k % 33 = 1 THEN vmPUSH32
        ELSE 0]

\* how Run stands once Convert's loop is in state convStatus: a panic of
\* toInstructions is not recovered, an error of Convert is passed to
\* panic(err)
RunOutcome(convStatus) ==
    IF convStatus = "loop" THEN "converting"
    ELSE IF convStatus = "done" THEN "run"
    ELSE "panic"

InitEVMRun ==
    /\ \/ /\ code \in LoopCodes
          /\ i = 0
          /\ res = <<>>
       \/ /\ code = PCCode
          /\ i = 33 * LongPushes
          /\ res = PushPrefix(LongPushes)
    /\ si \in BOOLEAN
    /\ status = "loop"
    /\ out = NoOut
    /\ cache = EmptyCache
    /\ gor = [g \in Goroutines |-> Idle]
    /\ calls = {}
    /\ ncalls = 0
    /\ hc = NoHashCache
    /\ hcall = NoHashCall
    /\ ctx = [outcome |-> RunOutcome("loop")]

\* Run while Convert's loop is at a byte of the code: the iteration, and
\* what a failure of it makes of the call of Run
RunConvertStep ==
    /\ status = "loop"
    /\ ctx.outcome = "converting"
    /\ i < Len(code)
    /\ LET n == Iteration(code, si, i, res) IN
         /\ i' = n.i
         /\ res' = n.res
         /\ status' = n.status
         /\ ctx' = [outcome |-> RunOutcome(n.status)]
    /\ out' = IF At(code, i) = vmJUMPDEST THEN out
              ELSE toInstructions(i, code, si)
    /\ UNCHANGED <<code, si, cache, gor, calls, ncalls, hc, hcall>>

\* Run once Convert has returned res, nil: the interpreter is entered
RunInterpreter ==
    /\ status = "loop"
    /\ ctx.outcome = "converting"
    /\ i >= Len(code)
    /\ status' = "done"
    /\ ctx' = [outcome |-> RunOutcome("done")]
    /\ UNCHANGED <<code, si, i, res, out, cache, gor, calls, ncalls, hc,
                   hcall>>

NextEVMRun == RunConvertStep \/ RunInterpreter

SpecEVMRun == InitEVMRun /\ [][NextEVMRun]_vars

\* C27: when the translation fails, by an error of Convert or by a PC
\* beyond the 16-bit limit, Run reports the failure as an error outcome
\* and no panic leaves Run.
TranslationFailureIsError ==
    (status \in {"loop", "done", "error", "panic"} /\ "outcome" \in DOMAIN ctx) =>
        /\ ctx.outcome # "panic"
        /\ status \in {"error", "panic"} => ctx.outcome = "error"

----------------------------------------------------------------------------
(***************************************************************************)
(* The convert loop on the three bytes PUSH1 x ADD, for every byte x, with *)
(* and without super instructions.                                         *)
(***************************************************************************)
PushAddCodes == { <<vmPUSH1, x, vmADD>> : x \in 0..255 }

InitPushAdd ==
    /\ code \in PushAddCodes
    /\ si \in BOOLEAN
    /\ i = 0
    /\ res = <<>>
    /\ status = "loop"
    /\ out = NoOut
    /\ cache = EmptyCache
    /\ gor = [g \in Goroutines |-> Idle]
    /\ calls = {}
    /\ ncalls = 0
    /\ hc = NoHashCache
    /\ hcall = NoHashCall
    /\ ctx = NoContext

NextPushAdd == ConvertInstructions \/ ConvertReturn

SpecPushAdd == InitPushAdd /\ [][NextPushAdd]_vars

\* C28: PUSH1 x ADD translates with super instructions to the one
\* instruction PUSH1_ADD with arg x (the value in the low byte), and
\* without them to PUSH1 with arg x << 8 followed by ADD.
PushAddTranslation ==
    (status = "done" /\ code \in PushAddCodes) =>
        LET x == code[2] IN
        IF si
        THEN res = <<Ins("PUSH1_ADD", x)>>
        ELSE res = <<Ins("PUSH1", x * 256), Ins("ADD", 0)>>

\* C28 witness: PUSH1 0x05 ADD has become PUSH1_ADD 0x0005
PushAddFiveFused ==
    /\ status = "done"
    /\ si
    /\ code = <<vmPUSH1, 5, vmADD>>
    /\ res = <<Ins("PUSH1_ADD", 5)>>

\* PUSH1 0x05 ADD has become PUSH1 0x0500, ADD
PushAddFivePlain ==
    /\ status = "done"
    /\ ~si
    /\ code = <<vmPUSH1, 5, vmADD>>
    /\ res = <<Ins("PUSH1", 1280), Ins("ADD", 0)>>

----------------------------------------------------------------------------
(***************************************************************************)
(* Convert and clearConversionCache statement by statement, with the       *)
(* mutex mu, converter.go:26-69.  ctx.mu is the goroutine holding mu or    *)
(* "free"; ctx.bare collects the statements on the cache map (and          *)
(* mu.Unlock) that a goroutine executed without holding mu, and the        *)
(* convert calls it made while holding it.  A goroutine counts its         *)
(* mu.Lock and mu.Unlock calls per call of Convert or                      *)
(* clearConversionCache.  mu.Lock blocks while mu is held.                 *)
(***************************************************************************)
MaxMutexCalls == 3

MutexCodes == { <<vmPUSH1, 5, vmADD>>, <<vmPUSH1, 6, vmADD>> }

\* the arguments of the Convert calls: a flagged address with two codes of
\* one length, with and without create, and another address
MutexCalls ==
    { [addr |-> changedAddress01, code |-> c, create |-> create] :
        c \in MutexCodes, create \in BOOLEAN }
    \cup { [addr |-> "0x00", code |-> <<vmPUSH1, 5, vmADD>>, create |-> FALSE] }

MutexIdle == [pc |-> "idle", addr |-> "", code |-> <<>>, si |-> FALSE,
              create |-> FALSE, exists |-> FALSE, isEqual |-> TRUE,
              res |-> cache_val(<<>>, <<>>),
              ret |-> [code |-> <<>>, err |-> "nil"],
              locks |-> 0, unlocks |-> 0]

\* the statements that read, write or replace the cache map or compare
\* the cached bytes
MapStatements == {"read", "compare", "write", "replace"}

\* ctx.bare after goroutine g has executed the statement step
Statement(g, step) ==
    IF \/ step \in MapStatements \cup {"unlock"} /\ ctx.mu # g
       \/ step = "convert" /\ ctx.mu = g
    THEN ctx.bare \cup {step}
    ELSE ctx.bare

InitMutex ==
    /\ code = <<>>
    /\ si = FALSE
    /\ i = 0
    /\ res = <<>>
    /\ status = "mutex"
    /\ out = NoOut
    /\ cache = EmptyCache
    /\ gor = [g \in Goroutines |-> MutexIdle]
    /\ calls = {}
    /\ ncalls = 0
    /\ hc = NoHashCache
    /\ hcall = NoHashCall
    /\ ctx = [mu |-> "free", bare |-> {}]

MutexRest == UNCHANGED <<code, si, i, res, status, out, calls, hc, hcall>>

Outside(g) == gor[g].pc \in {"idle", "returned"}

\* Convert is called: key := cache_key{addr, len(code)}, then mu.Lock()
\* is reached (converter.go:35-37)
ConvertCall(g, addr, c, withSuper, create) ==
    /\ status = "mutex"
    /\ Outside(g)
    /\ ncalls < MaxMutexCalls
    /\ gor' = [gor EXCEPT ![g] =
                 [MutexIdle EXCEPT !.pc = "lock", !.addr = addr, !.code = c,
                                   !.si = withSuper, !.create = create]]
    /\ ncalls' = ncalls + 1
    /\ UNCHANGED ctx
    /\ UNCHANGED cache
    /\ MutexRest

\* clearConversionCache is called and reaches mu.Lock() (converter.go:29-30)
ClearCall(g) ==
    /\ status = "mutex"
    /\ Outside(g)
    /\ ncalls < MaxMutexCalls
    /\ gor' = [gor EXCEPT ![g] = [MutexIdle EXCEPT !.pc = "clearLock"]]
    /\ ncalls' = ncalls + 1
    /\ UNCHANGED ctx
    /\ UNCHANGED cache
    /\ MutexRest

\* where a goroutine stands after its mu.Lock()
AfterLock(pc) ==
    IF pc = "lock" THEN "read"
    ELSE IF pc = "storeLock" THEN "write"
    ELSE "replace"

\* mu.Lock() (converter.go:30, 37, 65): taken when mu is free
MuLock(g) ==
    /\ status = "mutex"
    /\ gor[g].pc \in {"lock", "storeLock", "clearLock"}
    /\ ctx.mu = "free"
    /\ gor' = [gor EXCEPT ![g].pc = AfterLock(@), ![g].locks = @ + 1]
    /\ ctx' = [mu |-> g, bare |-> Statement(g, "lock")]
    /\ UNCHANGED <<cache, ncalls>>
    /\ MutexRest

\* res, exists := cache[key]; if exists && !create (converter.go:38-39)
ConvertRead(g) ==
    /\ status = "mutex"
    /\ gor[g].pc = "read"
    /\ LET key == cache_key(gor[g].addr, gor[g].code)
           exists == key \in DOMAIN cache
       IN  gor' = [gor EXCEPT
                     ![g].exists = exists,
                     ![g].res = IF exists THEN cache[key] ELSE @,
                     ![g].pc = IF UseCached(exists, gor[g].create)
                               THEN "compare" ELSE "missUnlock"]
    /\ ctx' = [ctx EXCEPT !.bare = Statement(g, "read")]
    /\ UNCHANGED <<cache, ncalls>>
    /\ MutexRest

\* AfterCompare with the mu.Unlock() of the hit left out
AfterCompareNoUnlock(isEqual) == IF isEqual THEN "returned" ELSE "missUnlock"

\* if isEqual { mu.Unlock(); return ... } and else on to the mu.Unlock()
\* of converter.go:58
AfterCompare(isEqual) == IF isEqual THEN "hitUnlock" ELSE "missUnlock"

\* isEqual := true and the comparison of the bytes for the three
\* addresses (converter.go:40-51)
ConvertCompare(g) ==
    /\ status = "mutex"
    /\ gor[g].pc = "compare"
    /\ LET isEqual == IsEqual(gor[g].addr, gor[g].res.oldCode, gor[g].code)
       IN  gor' = [gor EXCEPT ![g].isEqual = isEqual,
                              ![g].pc = AfterCompare(isEqual)]
    /\ ctx' = [ctx EXCEPT !.bare = Statement(g, "compare")]
    /\ UNCHANGED <<cache, ncalls>>
    /\ MutexRest

\* where a goroutine stands after its mu.Unlock()
AfterUnlock(pc) == IF pc = "missUnlock" THEN "convert" ELSE "returned"

\* a goroutine that has returned: of its call the returned pair and the
\* counts of its mu.Lock and mu.Unlock calls remain
Returned(r, ret) ==
    [MutexIdle EXCEPT !.pc = "returned", !.ret = ret, !.locks = r.locks,
                      !.unlocks = r.unlocks]

\* mu.Unlock() (converter.go:31 deferred, 54, 58, 67); the hit returns
\* res.code, nil
MuUnlock(g) ==
    /\ status = "mutex"
    /\ gor[g].pc \in {"hitUnlock", "missUnlock", "storeUnlock", "clearUnlock"}
    /\ LET r == [gor[g] EXCEPT !.unlocks = @ + 1] IN
       gor' = [gor EXCEPT ![g] =
                 IF AfterUnlock(gor[g].pc) # "returned"
                 THEN [r EXCEPT !.pc = AfterUnlock(gor[g].pc)]
                 ELSE IF gor[g].pc = "hitUnlock"
                 THEN Returned(r, [code |-> gor[g].res.code, err |-> "nil"])
                 ELSE Returned(r, gor[g].ret)]
    /\ ctx' = [mu |-> "free", bare |-> Statement(g, "unlock")]
    /\ UNCHANGED <<cache, ncalls>>
    /\ MutexRest

\* resCode, error := convert(code, with_super_instructions) with its
\* error return, and if !create (converter.go:59-64, 68)
ConvertTranslate(g) ==
    /\ status = "mutex"
    /\ gor[g].pc = "convert"
    /\ LET r == convert(gor[g].code, gor[g].si)
       IN  gor' = [gor EXCEPT ![g] =
                     IF r.err = "nil" /\ Installs(gor[g].create)
                     THEN [@ EXCEPT !.ret = r, !.pc = "storeLock"]
                     ELSE Returned(@, r)]
    /\ ctx' = [ctx EXCEPT !.bare = Statement(g, "convert")]
    /\ UNCHANGED <<cache, ncalls>>
    /\ MutexRest

\* cache[key] = cache_val{oldCode: code, code: resCode} (converter.go:66)
ConvertWrite(g) ==
    /\ status = "mutex"
    /\ gor[g].pc = "write"
    /\ cache' = CachePut(cache, cache_key(gor[g].addr, gor[g].code),
                         cache_val(gor[g].code, gor[g].ret.code))
    /\ gor' = [gor EXCEPT ![g].pc = "storeUnlock"]
    /\ ctx' = [ctx EXCEPT !.bare = Statement(g, "write")]
    /\ UNCHANGED ncalls
    /\ MutexRest

\* cache = map[cache_key]cache_val{} (converter.go:32)
ClearReplace(g) ==
    /\ status = "mutex"
    /\ gor[g].pc = "replace"
    /\ cache' = EmptyCache
    /\ gor' = [gor EXCEPT ![g].pc = "clearUnlock"]
    /\ ctx' = [ctx EXCEPT !.bare = Statement(g, "replace")]
    /\ UNCHANGED ncalls
    /\ MutexRest

\* the statements of goroutine g between its mu.Lock() calls
Proceed(g) ==
    \/ ConvertRead(g)
    \/ ConvertCompare(g)
    \/ MuUnlock(g)
    \/ ConvertTranslate(g)
    \/ ConvertWrite(g)
    \/ ClearReplace(g)

NextMutex ==
    \E g \in Goroutines :
        \/ \E a \in MutexCalls : ConvertCall(g, a.addr, a.code, FALSE, a.create)
        \/ ClearCall(g)
        \/ MuLock(g)
        \/ Proceed(g)

SpecMutex == InitMutex /\ [][NextMutex]_vars

\* every goroutine goes on with the statement it stands at, and a
\* goroutine waiting in mu.Lock() gets the mutex once it stays free
FairSpecMutex ==
    /\ SpecMutex
    /\ \A g \in Goroutines : WF_vars(MuLock(g) \/ Proceed(g))

MutexHeldWhereNeeded ==
    /\ ctx.bare = {}
    /\ \A g \in Goroutines :
          /\ gor[g].pc \in {"read", "compare", "write", "replace"} => ctx.mu = g
          /\ gor[g].pc = "convert" => ctx.mu # g
          /\ gor[g].unlocks <= gor[g].locks
          /\ ctx.mu = g <=> gor[g].locks = gor[g].unlocks + 1
          /\ Outside(g) => (ctx.mu # g /\ gor[g].locks = gor[g].unlocks)

\* C29: in every interleaving of Convert and clearConversionCache calls,
\* each read, write or replacement of the cache map and the byte comparison
\* happens while the calling goroutine holds the mutex, convert runs with
\* the mutex released, every mu.Lock() of a call is released exactly once
\* before the call returns, and every call that has started returns.
MutexDiscipline ==
    /\ [](status = "mutex" => MutexHeldWhereNeeded)
    /\ \A g \in Goroutines : (~Outside(g)) ~> (gor[g].pc = "returned")

\* C29 witness: a goroutine waits in mu.Lock() while the other, holding
\* the mutex, has compared the cached bytes of a flagged address and found
\* them different
BlockedBehindCompare ==
    /\ status = "mutex"
    /\ \E g, h \in Goroutines :
          /\ gor[g].pc \in {"lock", "storeLock", "clearLock"}
          /\ ctx.mu = h
          /\ gor[h].pc = "missUnlock"
          /\ gor[h].addr = changedAddress01
          /\ gor[h].exists /\ ~gor[h].isEqual

----------------------------------------------------------------------------
(***************************************************************************)
(* The super-instruction patterns of converter.go:107-205 as a table: the  *)
(* length in bytes, the opcodes required at offsets from the boundary (the *)
(* other offsets hold immediate bytes) and the super instruction emitted.  *)
(***************************************************************************)
Pattern(n, at, op) == [len |-> n, at |-> at, op |-> op]

SuperPatterns ==
    { Pattern(8, {<<0, vmPUSH1>>, <<2, vmPUSH4>>, <<7, vmDUP3>>},
              "PUSH1_PUSH4_DUP3"),
      Pattern(8, {<<0, vmPUSH1>>, <<2, vmPUSH1>>, <<4, vmPUSH1>>,
                  <<6, vmSHL>>, <<7, vmSUB>>}, "PUSH1_PUSH1_PUSH1_SHL_SUB"),
      Pattern(5, {<<0, vmAND>>, <<1, vmSWAP1>>, <<2, vmPOP>>, <<3, vmSWAP2>>,
                  <<4, vmSWAP1>>}, "AND_SWAP1_POP_SWAP2_SWAP1"),
      Pattern(5, {<<0, vmISZERO>>, <<1, vmPUSH2>>, <<4, vmJUMPI>>},
              "ISZERO_PUSH2_JUMPI"),
      Pattern(4, {<<0, vmSWAP2>>, <<1, vmSWAP1>>, <<2, vmPOP>>, <<3, vmJUMP>>},
              "SWAP2_SWAP1_POP_JUMP"),
      Pattern(4, {<<0, vmSWAP1>>, <<1, vmPOP>>, <<2, vmSWAP2>>,
                  <<3, vmSWAP1>>}, "SWAP1_POP_SWAP2_SWAP1"),
      Pattern(4, {<<0, vmPOP>>, <<1, vmSWAP2>>, <<2, vmSWAP1>>, <<3, vmPOP>>},
              "POP_SWAP2_SWAP1_POP"),
      Pattern(4, {<<0, vmPUSH2>>, <<3, vmJUMP>>}, "PUSH2_JUMP"),
      Pattern(4, {<<0, vmPUSH2>>, <<3, vmJUMPI>>}, "PUSH2_JUMPI"),
      Pattern(4, {<<0, vmPUSH1>>, <<2, vmPUSH1>>}, "PUSH1_PUSH1"),
      Pattern(3, {<<0, vmPUSH1>>, <<2, vmADD>>}, "PUSH1_ADD"),
      Pattern(3, {<<0, vmPUSH1>>, <<2, vmSHL>>}, "PUSH1_SHL"),
      Pattern(3, {<<0, vmPUSH1>>, <<2, vmDUP1>>}, "PUSH1_DUP1"),
      Pattern(2, {<<0, vmSWAP1>>, <<1, vmPOP>>}, "SWAP1_POP"),
      Pattern(2, {<<0, vmPOP>>, <<1, vmJUMP>>}, "POP_JUMP"),
      Pattern(2, {<<0, vmPOP>>, <<1, vmPOP>>}, "POP_POP"),
      Pattern(2, {<<0, vmSWAP2>>, <<1, vmSWAP1>>}, "SWAP2_SWAP1"),
      Pattern(2, {<<0, vmSWAP2>>, <<1, vmPOP>>}, "SWAP2_POP"),
      Pattern(2, {<<0, vmDUP2>>, <<1, vmMSTORE>>}, "DUP2_MSTORE"),
      Pattern(2, {<<0, vmDUP2>>, <<1, vmLT>>}, "DUP2_LT") }

SuperOps == {p.op : p \in SuperPatterns}

\* the required opcodes of pattern p stand in c from position pos, as far
\* as c reaches
BytesMatch(p, c, pos) ==
    \A e \in p.at : pos + e[1] < Len(c) => At(c, pos + e[1]) = e[2]

\* pattern p lies entirely within c from position pos
Fits(p, c, pos) == pos + p.len <= Len(c)

Matching(c, pos) ==
    {p \in SuperPatterns : Fits(p, c, pos) /\ BytesMatch(p, c, pos)}

\* the loop is at an instruction boundary that is not a JUMPDEST, with
\* super instructions enabled, and makes its iteration
SuperBoundaryStep ==
    /\ status = "loop" /\ si
    /\ i < Len(code) /\ At(code, i) # vmJUMPDEST
    /\ i' # i

SuperStep ==
    SuperBoundaryStep =>
        LET M == Matching(code, i) IN
        /\ \A p, q \in M : p.len = q.len => p = q
        /\ out'.ins[1].opcode \in SuperOps =>
              \E p \in M : p.op = out'.ins[1].opcode
        /\ \A p \in M :
              (\A q \in M : q.len <= p.len) =>
                  /\ out'.ins[1].opcode = p.op
                  /\ i' = i + p.len
                  /\ res' = res \o out'.ins
        /\ M = {} =>
              /\ out' = toInstructions(i, code, FALSE)
              /\ i' = i + out'.inc + 1
              /\ res' = res \o out'.ins

\* C30: with super instructions enabled, at every instruction boundary
\* that is not a JUMPDEST at most one pattern of each length matches, a
\* super instruction is emitted only for a pattern lying entirely in the
\* remaining bytes, the super instruction of the longest matching pattern
\* is emitted and the cursor advances by that pattern's length; when no
\* pattern matches the per-opcode translation is used.
LongestPatternWins == [][SuperStep]_vars

\* C30 witness: at a boundary where the two-byte pattern SWAP2 SWAP1 and
\* the four-byte pattern SWAP2 SWAP1 POP JUMP both matched, the longer was
\* emitted and the cursor stands behind its four bytes
LongerPatternEmitted ==
    /\ status = "loop" /\ si
    /\ out.ins = <<Ins("SWAP2_SWAP1_POP_JUMP", 0)>>
    /\ i >= 4
    /\ SubSeq(code, i - 3, i) = <<vmSWAP2, vmSWAP1, vmPOP, vmJUMP>>
    /\ Len(res) >= 1 /\ res[Len(res)] = Ins("SWAP2_SWAP1_POP_JUMP", 0)

----------------------------------------------------------------------------
(***************************************************************************)
(* The Stack operations of part_007:11-58 called one after another, each   *)
(* only when its precondition holds.  ctx.stack is the stack, ctx.n the    *)
(* number of calls made, ctx.last the last call: its name, its argument,   *)
(* the stack before it, the indices of data it accessed and the value      *)
(* behind the pointer it returned.  A stack starts empty or as it stands   *)
(* after stack_ptr pushes of zero.                                         *)
(***************************************************************************)
MaxStackOps == 4

MaxStackArg == 3

StackValues == {1, 2}

StartPtrs == {0, 1, 2, MAX_STACK_SIZE - 2, MAX_STACK_SIZE - 1, MAX_STACK_SIZE}

\* Stack.pushEmpty: stack_ptr++, then &s.data[s.stack_ptr-1]
pushEmpty(s) ==
    IF InArray(s.stack_ptr)
    THEN [s EXCEPT !.stack_ptr = @ + 1]
    ELSE [s EXCEPT !.stack_ptr = @ + 1, !.panic = TRUE]

\* Stack.peek: &s.data[s.len()-1]
peek(s) == dataAt(s, len(s) - 1)

StackCall(op, arg, before, idx, ret) ==
    [op |-> op, arg |-> arg, before |-> before, idx |-> idx, ret |-> ret]

InitStack ==
    /\ IdleRest
    /\ status = "stack"
    /\ \E sp \in StartPtrs :
          ctx = [stack |-> StackAt(sp), n |-> 0,
                 last |-> StackCall("none", 0, StackAt(sp), {}, 0)]

\* ctx after the call op(arg) that leaves the stack t, accessed the
\* indices idx and returned ret
AfterStackCall(op, arg, t, idx, ret) ==
    [stack |-> t, n |-> ctx.n + 1,
     last |-> StackCall(op, arg, ctx.stack, idx, ret)]

StackReady == status = "stack" /\ ctx.n < MaxStackOps

CallPush(d) ==
    /\ StackReady
    /\ len(ctx.stack) < MAX_STACK_SIZE
    /\ ctx' = AfterStackCall("push", d, push(ctx.stack, d),
                             {ctx.stack.stack_ptr}, 0)
    /\ RestUnchanged

CallPushEmpty ==
    /\ StackReady
    /\ len(ctx.stack) < MAX_STACK_SIZE
    /\ LET t == pushEmpty(ctx.stack)
       IN  ctx' = AfterStackCall("pushEmpty", 0, t, {t.stack_ptr - 1},
                                 dataAt(t, t.stack_ptr - 1))
    /\ RestUnchanged

CallPop ==
    /\ StackReady
    /\ len(ctx.stack) >= 1
    /\ LET t == pop(ctx.stack)
       IN  ctx' = AfterStackCall("pop", 0, t, {t.stack_ptr},
                                 dataAt(t, t.stack_ptr))
    /\ RestUnchanged

CallPeek ==
    /\ StackReady
    /\ len(ctx.stack) >= 1
    /\ ctx' = AfterStackCall("peek", 0, ctx.stack, {len(ctx.stack) - 1},
                             peek(ctx.stack))
    /\ RestUnchanged

CallSwap(n) ==
    /\ StackReady
    /\ len(ctx.stack) >= n /\ n >= 1
    /\ ctx' = AfterStackCall("swap", n, swap(ctx.stack, n),
                             {len(ctx.stack) - n, len(ctx.stack) - 1}, 0)
    /\ RestUnchanged

CallDup(n) ==
    /\ StackReady
    /\ len(ctx.stack) < MAX_STACK_SIZE
    /\ len(ctx.stack) >= n /\ n >= 1
    /\ ctx' = AfterStackCall("dup", n, dup(ctx.stack, n),
                             {ctx.stack.stack_ptr, ctx.stack.stack_ptr - n}, 0)
    /\ RestUnchanged

CallBack(n) ==
    /\ StackReady
    /\ len(ctx.stack) >= n + 1
    /\ ctx' = AfterStackCall("Back", n, ctx.stack, {len(ctx.stack) - n - 1},
                             Back(ctx.stack, n))
    /\ RestUnchanged

NextStack ==
    \/ \E d \in StackValues : CallPush(d)
    \/ CallPushEmpty
    \/ CallPop
    \/ CallPeek
    \/ \E n \in 1..MaxStackArg : CallSwap(n) \/ CallDup(n)
    \/ \E n \in 0..MaxStackArg : CallBack(n)

SpecStack == InitStack /\ [][NextStack]_vars

\* what each operation adds to stack_ptr
PtrChange(op) ==
    IF op \in {"push", "pushEmpty", "dup"} THEN 1
    ELSE IF op = "pop" THEN -1
    ELSE 0

\* the entries of s and t below index n are the same
SameBelow(s, t, n) == \A k \in 0..(n - 1) : dataAt(s, k) = dataAt(t, k)

StackStep ==
    (status = "stack" /\ ctx'.n = ctx.n + 1) =>
        /\ 0 <= len(ctx'.stack) /\ len(ctx'.stack) <= MAX_STACK_SIZE
        /\ ~ctx'.stack.panic
        /\ \A k \in ctx'.last.idx : InArray(k)
        /\ len(ctx'.stack) = len(ctx.stack) + PtrChange(ctx'.last.op)
        /\ (ctx.last.op = "push" /\ ctx'.last.op = "pop") =>
              /\ ctx'.last.ret = ctx.last.arg
              /\ len(ctx'.stack) = len(ctx.last.before)
              /\ SameBelow(ctx'.stack, ctx.last.before, len(ctx'.stack))

\* C31: when each Stack operation is called only under its precondition,
\* 0 <= sp <= 1024 holds after every operation, no access falls outside
\* data[0..1023], push, pushEmpty and dup raise sp by one, pop lowers it by
\* one, swap, peek and Back leave it, and a pop right after push(v) returns
\* v with the entries below unchanged.
StackStaysInBounds == [][StackStep]_vars

\* C31 witness: the stack was filled to its last slot by a push and the
\* pop behind it gave the pushed value back
PoppedFromFullStack ==
    /\ status = "stack"
    /\ ctx.last.op = "pop"
    /\ len(ctx.last.before) = MAX_STACK_SIZE
    /\ ctx.last.idx = {MAX_STACK_SIZE - 1}
    /\ ctx.last.ret = 2

----------------------------------------------------------------------------
(* The padding in front of a JUMPDEST                                      *)

\* the loop is at a JUMPDEST byte and makes its iteration
JumpdestStep ==
    /\ status = "loop" /\ status' = "loop"
    /\ i < Len(code) /\ At(code, i) = vmJUMPDEST
    /\ i' = i + 1

PaddingStep ==
    JumpdestStep =>
        LET L == Len(res) IN
        /\ Len(res') = i + 1
        /\ SubSeq(res', 1, L) = res
        /\ res'[i + 1] = Ins("JUMPDEST", 0)
        /\ L < i =>
              /\ res'[L + 1] = Ins("JUMP_TO", i)
              /\ \A k \in (L + 1)..(i - 1) : res'[k + 1] = Ins("NOOP", 0)

\* C32: at a JUMPDEST at source position p with output length L < p the
\* translator appends one JUMP_TO at index L with arg p, NOOPs at indices
\* L+1 .. p-1 and the JUMPDEST at index p; with L = p it appends the
\* JUMPDEST alone.  The arg of the JUMP_TO is the index of its JUMPDEST for
\* every position a code can have.
JumpToArgIsPosition == [][PaddingStep]_vars

----------------------------------------------------------------------------
(***************************************************************************)
(* Convert called by one goroutine that keeps the byte slices it passes.   *)
(* A []byte is a reference to its array: ctx.heap holds the arrays of the  *)
(* caller's slices, and the oldCode of a cache entry is the slice that was *)
(* passed, cache_val{oldCode: code, ...} (converter.go:66), so it names    *)
(* the caller's array.  ctx.passed holds, per key, the bytes the array     *)
(* held when the entry was written.                                        *)
(***************************************************************************)
Slices == {1, 2}

NoConvertCall == [addr |-> "", slice |-> 0, hit |-> FALSE, ret |-> <<>>]

InitSlices ==
    /\ code = <<>>
    /\ si = FALSE
    /\ i = 0
    /\ res = <<>>
    /\ status = "slices"
    /\ out = NoOut
    /\ cache = EmptyCache
    /\ gor = [g \in Goroutines |-> Idle]
    /\ calls = {}
    /\ ncalls = 0
    /\ hc = NoHashCache
    /\ hcall = NoHashCall
    /\ ctx = [heap |-> [r \in Slices |-> <<vmPUSH1, 5, vmADD>>],
              passed |-> EmptyCache, last |-> NoConvertCall]

\* Convert(addr, code, with_super_instructions, blk, false) with code the
\* slice r (converter.go:35-69)
ConvertSlice(addr, r, withSuper) ==
    /\ status = "slices"
    /\ LET c == ctx.heap[r]
           key == cache_key(addr, c)
           exists == key \in DOMAIN cache
           hit == /\ UseCached(exists, FALSE)
                  /\ IsEqual(addr, ctx.heap[cache[key].oldCode], c)
           resCode == convert(c, withSuper)
       IN  IF hit
           THEN /\ cache' = cache
                /\ ctx' = [ctx EXCEPT !.last = [addr |-> addr, slice |-> r,
                                                hit |-> TRUE,
                                                ret |-> cache[key].code]]
           ELSE /\ cache' = CachePut(cache, key, cache_val(r, resCode.code))
                /\ ctx' = [ctx EXCEPT
                             !.passed = CachePut(@, key,
                                                 cache_val(c, resCode.code)),
                             !.last = [addr |-> addr, slice |-> r,
                                       hit |-> FALSE, ret |-> resCode.code]]
    /\ UNCHANGED <<code, si, i, res, status, out, gor, calls, ncalls, hc, hcall>>

\* the caller writes the byte b into its slice r: code[1] = b
WriteSlice(r, b) ==
    /\ status = "slices"
    /\ ctx.heap[r][2] # b
    /\ ctx' = [ctx EXCEPT !.heap[r][2] = b]
    /\ UNCHANGED <<code, si, i, res, status, out, cache, gor, calls, ncalls,
                   hc, hcall>>

NextSlices ==
    \/ \E addr \in CallAddrs, r \in Slices, withSuper \in BOOLEAN :
          ConvertSlice(addr, r, withSuper)
    \/ \E r \in Slices, b \in {5, 6} : WriteSlice(r, b)

SpecSlices == InitSlices /\ [][NextSlices]_vars

\* C33: the original bytes of a cache entry are a snapshot: writing into
\* the slice that was passed to Convert, after the call has returned,
\* changes neither the bytes a later hit for a flagged address compares
\* against nor the cached translation.
OldCodeIsSnapshot ==
    status = "slices" =>
        \A key \in DOMAIN cache :
            /\ ctx.heap[cache[key].oldCode] = ctx.passed[key].oldCode
            /\ cache[key].code = ctx.passed[key].code

\* a call for a flagged address has returned from the cache a translation
\* that is not the translation of the code it passed
HitReturnedStaleCode ==
    /\ status = "slices"
    /\ ctx.last.hit
    /\ ctx.last.addr = changedAddress01
    /\ \A withSuper \in BOOLEAN :
          ctx.last.ret # convert(ctx.heap[ctx.last.slice], withSuper).code

----------------------------------------------------------------------------
(* The output never runs ahead of the cursor                               *)

\* C34: at the start of every iteration of the translation loop the output
\* is no longer than the cursor; the "target block larger than input"
\* branch is never taken, convert returns no error, and the output is no
\* longer than the code.
OutputBehindCursor ==
    (status \in {"loop", "done", "error"}) =>
        /\ Len(res) <= i
        /\ status # "error"
        /\ status = "done" => Len(res) <= Len(code)

\* C34 witness: the loop has returned an output as long as its code, having
\* passed a JUMPDEST behind the first byte with the output at the cursor
FullLengthOutput ==
    /\ status = "done"
    /\ Len(code) >= 2
    /\ Len(res) = Len(code)
    /\ \E p \in 1..(Len(code) - 1) :
          At(code, p) = vmJUMPDEST /\ res[p + 1] = Ins("JUMPDEST", 0)

----------------------------------------------------------------------------
(* Well-formedness of the LRU structures of the hash cache                 *)

\* the entries of a structure from head along succ
RECURSIVE ChainFrom(_, _, _)
ChainFrom(L, entry, fuel) ==
    IF entry = nil \/ fuel = 0 THEN <<>>
    ELSE <<entry>> \o ChainFrom(L, L.entries[entry].succ, fuel - 1)

Chain(L) == ChainFrom(L, L.head, Len(L.entries) + 1)

WellFormed(L) ==
    LET ch == Chain(L) IN
    /\ L.head # nil /\ L.tail # nil
    /\ L.entries[L.head].pred = nil
    /\ L.entries[L.tail].succ = nil
    /\ ch # <<>> /\ ch[Len(ch)] = L.tail
    /\ \A a, b \in 1..Len(ch) : ch[a] = ch[b] => a = b
    /\ {ch[n] : n \in 1..Len(ch)} = {L.index[k] : k \in DOMAIN L.index}
    /\ \A n \in 1..(Len(ch) - 1) : L.entries[ch[n + 1]].pred = ch[n]
    /\ \A k \in DOMAIN L.index : L.entries[L.index[k]].key = k
    /\ Cardinality(DOMAIN L.index) = Len(ch)
    /\ 1 <= Len(ch) /\ Len(ch) <= Len(L.entries)

Capacity(L) == Len(L.entries)

\* C35: after newHashCache and after every hash call each LRU structure is
\* well formed: head.pred = nil, tail.succ = nil, succ leads from head to
\* tail over exactly the indexed entries, pred is the inverse of succ,
\* index[k].key = k, and the number of indexed keys is the list length,
\* between 1 and the capacity.
LRUWellFormed ==
    (status = "hash" /\ Capacity(hc.lru32) >= 1 /\ Capacity(hc.lru64) >= 1) =>
        WellFormed(hc.lru32) /\ WellFormed(hc.lru64)

\* the same for the structures of capacity 2 or more
LRUWellFormedFromTwo ==
    (status = "hash" /\ Capacity(hc.lru32) >= 2 /\ Capacity(hc.lru64) >= 2) =>
        WellFormed(hc.lru32) /\ WellFormed(hc.lru64)

\* C36: for every capacity pair with capacity32 >= 1 and capacity64 >= 1,
\* newHashCache and every hash call behind it complete without a nil
\* head, tail or pred being dereferenced, the first miss on a full
\* structure included.
NoNilDereference ==
    (status = "hash" /\ Capacity(hc.lru32) >= 1 /\ Capacity(hc.lru64) >= 1) =>
        /\ hc.built /\ ~hc.panic
        /\ hcall.kind # "panic"

\* a structure of capacity 3 is full, has evicted and re-ordered, and is
\* well formed
FullStructureWellFormed ==
    /\ status = "hash"
    /\ Capacity(hc.lru32) = 3
    /\ Order(hc.lru32) = <<3, 1, 2>>
    /\ WellFormed(hc.lru32)

----------------------------------------------------------------------------
(***************************************************************************)
(* A transaction writing storage slots: each SSTORE is the gas computation *)
(* gasSStore (sentry passed) followed by the write of the value.  ctx.slot *)
(* gives per slot the original and the current value, the number of        *)
(* SSTOREs to it, the gas charged for them and the amounts they added to   *)
(* the refund counter; ctx.refund is the refund counter, 0 at the start of *)
(* the transaction, where every slot holds its original value.             *)
(***************************************************************************)
MaxSStores == 4

Slots2 == {1, 2}

RECURSIVE Sum(_)
Sum(q) == IF q = <<>> THEN 0 ELSE q[1] + Sum(Tail(q))

SlotAtStart(original) ==
    [original |-> original, current |-> original, n |-> 0, charged |-> 0,
     refunds |-> <<>>]

InitTx ==
    /\ IdleRest
    /\ status = "tx"
    /\ \E o \in [Slots2 -> Words] :
          ctx = [slot |-> [k \in Slots2 |-> SlotAtStart(o[k])],
                 refund |-> 0, n |-> 0, last |-> <<>>]

\* SSTORE of value to the slot key: gasSStore, then the write
SStore(key, value, isLondon) ==
    /\ status = "tx"
    /\ ctx.n < MaxSStores
    /\ LET sl == ctx.slot[key]
           r == gasSStore(SStoreContext(TestGas, key, value, isLondon),
                          StateDB(sl.original, sl.current, ctx.refund))
       IN  /\ ~r.err
           /\ ctx' = [slot |-> [ctx.slot EXCEPT
                                  ![key].current = value,
                                  ![key].n = @ + 1,
                                  ![key].charged = @ + r.gas,
                                  ![key].refunds = @ \o r.db.refunds],
                      refund |-> r.db.refund,
                      n |-> ctx.n + 1,
                      last |-> r.db.refunds]
    /\ RestUnchanged

NextTx ==
    \E key \in Slots2, value \in Words, isLondon \in BOOLEAN :
        SStore(key, value, isLondon)

SpecTx == InitTx /\ [][NextTx]_vars

\* how many times the amount a stands in q
Count(q, a) == Cardinality({n \in 1..Len(q) : q[n] = a})

\* the clearing refunds of a slot that were added and not taken back
Outstanding(sl) ==
    Count(sl.refunds, SstoreClearsScheduleRefundEIP2200)
        - Count(sl.refunds, 0 - SstoreClearsScheduleRefundEIP2200)

\* C37: from a refund counter of 0, over every sequence of SSTOREs to any
\* slots, the refund counter never falls below zero, and every
\* SubRefund(SstoreClearsScheduleRefund) is covered by an earlier
\* AddRefund of that amount for the same slot that was not taken back.
RefundNeverNegative ==
    status = "tx" =>
        /\ ctx.refund >= 0
        /\ ctx.refund = Sum(ctx.slot[1].refunds) + Sum(ctx.slot[2].refunds)
        /\ \A k \in Slots2 :
              /\ Outstanding(ctx.slot[k]) >= 0
              /\ Sum(ctx.slot[k].refunds) >= 0

\* C37 witness: the clearing refund of a slot was added, the slot was
\* written again and the refund taken back, which left the counter at 0
ClearingRefundTakenBack ==
    /\ status = "tx"
    /\ ctx.last = <<0 - SstoreClearsScheduleRefundEIP2200>>
    /\ ctx.refund = 0
    /\ \E k \in Slots2 :
          ctx.slot[k].refunds = <<SstoreClearsScheduleRefundEIP2200,
                                  0 - SstoreClearsScheduleRefundEIP2200>>

\* C38: for every slot and every sequence of n >= 1 SSTOREs to it in one
\* transaction, whenever the slot holds its original value after the
\* sequence, the gas charged for those SSTOREs minus the net refund they
\* added is n * SloadGas.
NetGasIsSloadGas ==
    status = "tx" =>
        \A k \in Slots2 :
            LET sl == ctx.slot[k] IN
            (sl.n >= 1 /\ sl.current = sl.original) =>
                sl.charged - Sum(sl.refunds) = sl.n * SloadGasEIP2200

\* C38 witness: a slot was cleared, set to another value and set back to
\* its original value, with SSTOREs to the other slot in between
SlotBackAtOriginal ==
    /\ status = "tx"
    /\ \E k \in Slots2 :
          /\ ctx.slot[k].n = 3
          /\ ctx.slot[k].original = 1 /\ ctx.slot[k].current = 1
          /\ ctx.slot[k].charged = SstoreResetGasEIP2200 + 2 * SloadGasEIP2200
          /\ Len(ctx.slot[k].refunds) = 3
    /\ ctx.n = 4

----------------------------------------------------------------------------
(***************************************************************************)
(* RecordQueue: the lock-free queue of stats.go.  ctx.heap is the sequence *)
(* of the RecordNodes allocated so far (a pointer is an index, 0 is nil),  *)
(* ctx.head and ctx.tail are the two pointers of the queue.  gor[g] holds  *)
(* the statement goroutine g stands at and its locals; every atomic load   *)
(* and compare-and-swap is one step.  ctx.hist lists the operations in the *)
(* order of their linearization points: an Enqueue at its successful       *)
(* cas on tail.next, a Dequeue that returns a record at its successful cas *)
(* on q.head.  A Dequeue that returns nil is linearized at its load of     *)
(* head.next.                                                              *)
(***************************************************************************)
MaxQueueOps == 4

QueueIdle == [pc |-> "idle", op |-> "none", n |-> 0, head |-> 0, tail |-> 0,
              next |-> 0, v |-> 0, ret |-> 0, empty |-> FALSE]

RecordNode(value) == [value |-> value, next |-> 0]

\* cas without the comparison
casBlind(current, old, new) == [ok |-> TRUE, p |-> new]

\* atomic.CompareAndSwapPointer on a pointer that holds current
cas(current, old, new) ==
    IF current = old THEN [ok |-> TRUE, p |-> new]
                     ELSE [ok |-> FALSE, p |-> current]

\* NewRecordQueue: head and tail point to one empty node
InitQueue ==
    /\ code = <<>>
    /\ si = FALSE
    /\ i = 0
    /\ res = <<>>
    /\ status = "queue"
    /\ out = NoOut
    /\ cache = EmptyCache
    /\ gor = [g \in Goroutines |-> QueueIdle]
    /\ calls = {}
    /\ ncalls = 0
    /\ hc = NoHashCache
    /\ hcall = NoHashCall
    /\ ctx = [heap |-> <<RecordNode(0)>>, head |-> 1, tail |-> 1,
              hist |-> <<>>]

QueueRest == UNCHANGED <<code, si, i, res, status, out, cache, calls, hc,
                         hcall>>

QueueAt(g, pc) == status = "queue" /\ gor[g].pc = pc

\* the records of the queue in the order of hist: those enqueued and not
\* yet dequeued
Enqueued(hist) == SelectSeq(hist, LAMBDA e : e.op = "Enqueue")
Dequeued(hist) == SelectSeq(hist, LAMBDA e : e.op = "Dequeue")
Abstract(hist) ==
    [k \in 1..(Len(Enqueued(hist)) - Len(Dequeued(hist))) |->
        Enqueued(hist)[k + Len(Dequeued(hist))].v]

\* Enqueue(v) is called: n := &RecordNode{value: v}; the record v is new
EnqueueCall(g) ==
    /\ status = "queue"
    /\ gor[g].pc \in {"idle", "returned"}
    /\ ncalls < MaxQueueOps
    /\ ncalls' = ncalls + 1
    /\ ctx' = [ctx EXCEPT !.heap = Append(@, RecordNode(ncalls + 1))]
    /\ gor' = [gor EXCEPT ![g] = [QueueIdle EXCEPT !.pc = "enqTail",
                                                   !.op = "Enqueue",
                                                   !.v = ncalls + 1,
                                                   !.n = Len(ctx.heap) + 1]]
    /\ QueueRest

\* tail := load(&q.tail)
EnqueueLoadTail(g) ==
    /\ QueueAt(g, "enqTail")
    /\ gor' = [gor EXCEPT ![g].tail = ctx.tail, ![g].pc = "enqNext"]
    /\ UNCHANGED <<ctx, ncalls>>
    /\ QueueRest

\* next := load(&tail.next)
EnqueueLoadNext(g) ==
    /\ QueueAt(g, "enqNext")
    /\ gor' = [gor EXCEPT ![g].next = ctx.heap[gor[g].tail].next,
                          ![g].pc = "enqCheck"]
    /\ UNCHANGED <<ctx, ncalls>>
    /\ QueueRest

\* if tail == load(&q.tail) { if next == nil {...} else {...} }
EnqueueCheck(g) ==
    /\ QueueAt(g, "enqCheck")
    /\ gor' = [gor EXCEPT ![g].pc =
                 IF gor[g].tail # ctx.tail THEN "enqTail"
                 ELSE IF gor[g].next = 0 THEN "enqLink" ELSE "enqHelp"]
    /\ UNCHANGED <<ctx, ncalls>>
    /\ QueueRest

\* if cas(&tail.next, next, n)
EnqueueLink(g) ==
    /\ QueueAt(g, "enqLink")
    /\ LET c == cas(ctx.heap[gor[g].tail].next, gor[g].next, gor[g].n)
       IN  /\ ctx' = [ctx EXCEPT
                        !.heap[gor[g].tail].next = c.p,
                        !.hist = IF c.ok
                                 THEN Append(@, [op |-> "Enqueue",
                                                 v |-> gor[g].v, g |-> g])
                                 ELSE @]
           /\ gor' = [gor EXCEPT ![g].pc = IF c.ok THEN "enqSwing"
                                           ELSE "enqTail"]
    /\ UNCHANGED ncalls
    /\ QueueRest

\* cas(&q.tail, tail, n); return
EnqueueSwing(g) ==
    /\ QueueAt(g, "enqSwing")
    /\ ctx' = [ctx EXCEPT !.tail = cas(@, gor[g].tail, gor[g].n).p]
    /\ gor' = [gor EXCEPT ![g] = [QueueIdle EXCEPT !.pc = "returned",
                                                   !.op = "Enqueue",
                                                   !.v = gor[g].v]]
    /\ UNCHANGED ncalls
    /\ QueueRest

\* cas(&q.tail, tail, next), and the loop starts again
EnqueueHelp(g) ==
    /\ QueueAt(g, "enqHelp")
    /\ ctx' = [ctx EXCEPT !.tail = cas(@, gor[g].tail, gor[g].next).p]
    /\ gor' = [gor EXCEPT ![g].pc = "enqTail"]
    /\ UNCHANGED ncalls
    /\ QueueRest

\* Dequeue() is called
DequeueCall(g) ==
    /\ status = "queue"
    /\ gor[g].pc \in {"idle", "returned"}
    /\ ncalls < MaxQueueOps
    /\ ncalls' = ncalls + 1
    /\ gor' = [gor EXCEPT ![g] = [QueueIdle EXCEPT !.pc = "deqHead",
                                                   !.op = "Dequeue"]]
    /\ UNCHANGED ctx
    /\ QueueRest

\* head := load(&q.head)
DequeueLoadHead(g) ==
    /\ QueueAt(g, "deqHead")
    /\ gor' = [gor EXCEPT ![g].head = ctx.head, ![g].pc = "deqTail"]
    /\ UNCHANGED <<ctx, ncalls>>
    /\ QueueRest

\* tail := load(&q.tail)
DequeueLoadTail(g) ==
    /\ QueueAt(g, "deqTail")
    /\ gor' = [gor EXCEPT ![g].tail = ctx.tail, ![g].pc = "deqNext"]
    /\ UNCHANGED <<ctx, ncalls>>
    /\ QueueRest

\* next := load(&head.next); gor[g].empty tells whether the queue of
\* ctx.hist was empty at this load
DequeueLoadNext(g) ==
    /\ QueueAt(g, "deqNext")
    /\ gor' = [gor EXCEPT ![g].next = ctx.heap[gor[g].head].next,
                          ![g].empty = Abstract(ctx.hist) = <<>>,
                          ![g].pc = "deqCheck"]
    /\ UNCHANGED <<ctx, ncalls>>
    /\ QueueRest

\* if head == load(&q.head) { if head == tail { if next == nil { return
\* nil } ... } else { ... } }
DequeueCheck(g) ==
    /\ QueueAt(g, "deqCheck")
    /\ gor' = [gor EXCEPT ![g] =
                 IF gor[g].head # ctx.head THEN [@ EXCEPT !.pc = "deqHead"]
                 ELSE IF gor[g].head # gor[g].tail
                      THEN [@ EXCEPT !.pc = "deqValue"]
                 ELSE IF gor[g].next # 0 THEN [@ EXCEPT !.pc = "deqHelp"]
                 ELSE [QueueIdle EXCEPT !.pc = "returned", !.op = "Dequeue",
                                        !.ret = 0, !.empty = gor[g].empty]]
    /\ UNCHANGED <<ctx, ncalls>>
    /\ QueueRest

\* cas(&q.tail, tail, next), and the loop starts again
DequeueHelp(g) ==
    /\ QueueAt(g, "deqHelp")
    /\ ctx' = [ctx EXCEPT !.tail = cas(@, gor[g].tail, gor[g].next).p]
    /\ gor' = [gor EXCEPT ![g].pc = "deqHead"]
    /\ UNCHANGED ncalls
    /\ QueueRest

\* v := next.value
DequeueValue(g) ==
    /\ QueueAt(g, "deqValue")
    /\ gor' = [gor EXCEPT ![g].v = ctx.heap[gor[g].next].value,
                          ![g].pc = "deqSwing"]
    /\ UNCHANGED <<ctx, ncalls>>
    /\ QueueRest

\* if cas(&q.head, head, next) { return v }
DequeueSwing(g) ==
    /\ QueueAt(g, "deqSwing")
    /\ LET c == cas(ctx.head, gor[g].head, gor[g].next)
       IN  /\ ctx' = [ctx EXCEPT
                        !.head = c.p,
                        !.hist = IF c.ok
                                 THEN Append(@, [op |-> "Dequeue",
                                                 v |-> gor[g].v, g |-> g])
                                 ELSE @]
           /\ gor' = [gor EXCEPT ![g] =
                        IF c.ok
                        THEN [QueueIdle EXCEPT !.pc = "returned",
                                               !.op = "Dequeue",
                                               !.ret = gor[g].v]
                        ELSE [@ EXCEPT !.pc = "deqHead"]]
    /\ UNCHANGED ncalls
    /\ QueueRest

NextQueue ==
    \E g \in Goroutines :
        \/ EnqueueCall(g)
        \/ EnqueueLoadTail(g)
        \/ EnqueueLoadNext(g)
        \/ EnqueueCheck(g)
        \/ EnqueueLink(g)
        \/ EnqueueSwing(g)
        \/ EnqueueHelp(g)
        \/ DequeueCall(g)
        \/ DequeueLoadHead(g)
        \/ DequeueLoadTail(g)
        \/ DequeueLoadNext(g)
        \/ DequeueCheck(g)
        \/ DequeueHelp(g)
        \/ DequeueValue(g)
        \/ DequeueSwing(g)

SpecQueue == InitQueue /\ [][NextQueue]_vars

\* the records in the nodes behind node n, at most k of them
RECURSIVE RecordsBehind(_, _)
RecordsBehind(n, k) ==
    IF k = 0 \/ ctx.heap[n].next = 0 THEN <<>>
    ELSE <<ctx.heap[ctx.heap[n].next].value>>
             \o RecordsBehind(ctx.heap[n].next, k - 1)

\* hist is a history of a sequential FIFO queue: the j-th Dequeue stands
\* behind the j-th Enqueue and returns its record
FIFOHistory(hist) ==
    /\ \A k \in 1..Len(hist) :
          Len(Dequeued(SubSeq(hist, 1, k)))
              <= Len(Enqueued(SubSeq(hist, 1, k)))
    /\ \A j \in 1..Len(Dequeued(hist)) :
          Dequeued(hist)[j].v = Enqueued(hist)[j].v

\* C39: under any interleaving of Enqueue and Dequeue calls the queue is
\* linearizable to a sequential FIFO queue: the operations in the order of
\* their linearization points form a FIFO history (a record is returned by
\* at most one Dequeue, in the order of the Enqueues), the records in the
\* list are those enqueued and not dequeued (none is lost), and a Dequeue
\* returns nil only if the queue was empty at its linearization point.
QueueLinearizable ==
    status = "queue" =>
        /\ FIFOHistory(ctx.hist)
        /\ \A j, k \in 1..Len(Dequeued(ctx.hist)) :
              Dequeued(ctx.hist)[j].v = Dequeued(ctx.hist)[k].v => j = k
        /\ RecordsBehind(ctx.head, Len(ctx.heap)) = Abstract(ctx.hist)
        /\ \A g \in Goroutines :
              (gor[g].pc = "returned" /\ gor[g].op = "Dequeue"
                 /\ gor[g].ret = 0) => gor[g].empty

\* C39 witness: both goroutines enqueued a record and both dequeued one;
\* the first record was dequeued before the second went in, and the
\* second Dequeue returned the second record
DequeuedInOrder ==
    /\ status = "queue"
    /\ Len(ctx.hist) = 4
    /\ Len(Dequeued(ctx.hist)) = 2
    /\ Enqueued(ctx.hist)[1].g # Enqueued(ctx.hist)[2].g
    /\ Dequeued(ctx.hist)[1].g # Dequeued(ctx.hist)[2].g
    /\ Dequeued(ctx.hist)[2].v = Enqueued(ctx.hist)[2].v
    /\ ctx.hist[2].op = "Dequeue"

----------------------------------------------------------------------------
(***************************************************************************)
(* The keys of the update sets (update_db.go).  A uint64 is the sequence   *)
(* of its four 16-bit words, most significant first; a key is a sequence   *)
(* of bytes.  ctx.block is the block number, ctx.key the key made of it    *)
(* and ctx.decoded the pair DecodeSubstateAllocKey returns for that key.   *)
(***************************************************************************)
\* "1s"
SubstateAllocPrefix == <<49, 115>>

KeyWords == {0, 1, 255, 256, 65535}

Blocks == [1..4 -> KeyWords]

ZeroBlock == [k \in 1..4 |-> 0]

\* binary.BigEndian.PutUint64: the eight bytes of block
PutUint64(block) ==
    [k \in 1..8 |-> IF k % 2 = 1 THEN block[(k + 1) \div 2] \div 256
                                 ELSE block[k \div 2] % 256]

\* binary.BigEndian.Uint64: the uint64 of eight bytes
BigEndianUint64(b) == [k \in 1..4 |-> b[2 * k - 1] * 256 + b[2 * k]]

\* SubstateAllocKey: the prefix, then blockTx, 16 bytes of which the
\* first eight hold the block
SubstateAllocKey(block) ==
    SubstateAllocPrefix \o PutUint64(block) \o [k \in 1..8 |-> 0]

DecodeSubstateAllocKey(key) ==
    IF Len(key) # Len(SubstateAllocPrefix) + 8
    THEN [block |-> ZeroBlock, err |-> "invalid length"]
    ELSE IF SubSeq(key, 1, Len(SubstateAllocPrefix)) # SubstateAllocPrefix
    THEN [block |-> ZeroBlock, err |-> "invalid prefix"]
    ELSE [block |-> BigEndianUint64(SubSeq(key, Len(SubstateAllocPrefix) + 1,
                                           Len(key))),
          err |-> "nil"]

NotDecoded == [block |-> ZeroBlock, err |-> "none"]

InitKey ==
    /\ IdleRest
    /\ status = "key"
    /\ \E block \in Blocks :
          ctx = [block |-> block, key |-> <<>>, decoded |-> NotDecoded]

\* PutUpdateSet, HasUpdateSet: key := SubstateAllocKey(block)
MakeKey ==
    /\ status = "key"
    /\ ctx.key = <<>>
    /\ ctx' = [ctx EXCEPT !.key = SubstateAllocKey(ctx.block)]
    /\ RestUnchanged

\* the key is handed to DecodeSubstateAllocKey
DecodeKey ==
    /\ status = "key"
    /\ ctx.key # <<>>
    /\ ctx.decoded = NotDecoded
    /\ ctx' = [ctx EXCEPT !.decoded = DecodeSubstateAllocKey(ctx.key)]
    /\ RestUnchanged

NextKey == MakeKey \/ DecodeKey

SpecKey == InitKey /\ [][NextKey]_vars

\* C40: for every block number b, DecodeSubstateAllocKey(SubstateAllocKey(b))
\* returns b with no error.
KeyRoundTrip ==
    (status = "key" /\ ctx.decoded # NotDecoded) =>
        /\ ctx.decoded.err = "nil"
        /\ ctx.decoded.block = ctx.block

\* every key SubstateAllocKey makes is refused for its length
KeyRefusedForLength ==
    (status = "key" /\ ctx.decoded # NotDecoded) =>
        /\ Len(ctx.key) = Len(SubstateAllocPrefix) + 16
        /\ ctx.decoded.err = "invalid length"

====
